---- MODULE Spec2Model ----
(***************************************************************************)
(* gamik: the synchronization server (src/src/net.rs) over the pure game   *)
(* layer (src/src/game/mod.rs).                                            *)
(*                                                                         *)
(* Values.  An EntityID is a u32, held as its 32-bit pattern read as a     *)
(* two's complement integer: 0 .. 2^31-1 are themselves, 2^31 .. 2^32-1    *)
(* are v - 2^32 (u32::MAX is -1), because TLC integers are 32              *)
(* bits wide.  A Point is a record                                        *)
(* [x, y].  Option<String> is <<>> (None) or <<s>> (Some(s)).  An entity   *)
(* map is a function from its key set to Entity records.  Enum values are  *)
(* tuples whose first element is the variant name: <<"Move", "Up">>,       *)
(* <<"SpawnPlayer", "Al">>, <<"SpawnAs", 7>>, <<"SaveWorld">>,             *)
(* <<"PlayerID", 7>>, <<"EntityMap", m>>, <<"Client", a>>, <<"Server", s>>.*)
(***************************************************************************)
EXTENDS Integers, Sequences, FiniteSets, TLC

VARIABLES
    state,       \* the ServerState behind Arc<Mutex<..>>: game, endpoints,
                 \* unique_server_messages, event_queue, player_fovs
    lock,        \* holder of the mutex: <<>> (free) or <<c>> (tick task of c)
    conn,        \* per connection: "none", "open", "closed" (peer gone)
    remote,      \* per connection: connection.remote_id()
    acceptLoop,  \* per connection accept loop: "none", "running", "ended"
    handlers,    \* per connection: the handler tasks spawned for accepted
                 \* streams that have not yet read and handled their stream
    tickpc,      \* per connection tick task: "none", "timer", "locked", "send"
    responses,   \* per connection tick task: the local Vec `responses`
    disk,        \* worlds/<name>.world files: name -> contents
    applied,     \* history: (eid, action) pairs process_events has handled
    enqueued,    \* history: (eid, action) pairs pushed on event_queue
    queuedBy,      \* history: for each queued one-off message, the connection
                 \* whose handler queued it (parallel to unique_server_messages)
    sending,     \* history: the same for the one-offs in `responses`
    failed,      \* history: per connection, a send has failed
    nmsgs,       \* number of inbound streams handled so far
    nticks,      \* number of tick critical sections so far
    sim,         \* the game layer run on its own (no server): see InitW
    wire,        \* the encoding run on its own: see InitC
    mock,        \* a pair of MockTransports: see InitM
    client,      \* the client application's network poll: see InitA
    view         \* the FOV of one observer on its own: see InitF

vars == <<state, lock, conn, remote, acceptLoop, handlers, tickpc, responses, disk,
          applied, enqueued, queuedBy, sending, failed, nmsgs, nticks, sim, wire, mock,
          client, view>>

-----------------------------------------------------------------------------
(* Bounds of the model *)

\* client messages the handler tasks handle in a run; from Init the first of
\* them can only bind its endpoint, so queues of several entries are those
\* of SpecB, SpecL and SpecK (both endpoints bound at the start) and of
\* SpecT (up to MaxQueue entries pending at the start)
MaxMsgs == 2
\* tick critical sections in a run
MaxTicks == 2
\* apply calls in a run of the game layer on its own
MaxSteps == 3
\* actions pending in the queue when a run of SpecT starts
MaxQueue == 3
\* send calls on a pair of MockTransports
MaxSends == 3
\* how far, per axis, the observer of SpecF walks from where it starts
MaxDrift == 1
\* messages the client's receive loop forwards to the application
MaxInbox == 3

Conns == {"k1", "k2"}
Endpoints == {"A", "B"}
\* connections and endpoints are interchangeable: the first connection
\* accepted is called k1 and its endpoint A
FirstConn == "k1"
FirstEndpoint == "A"
Names == {"Al"}
MoveInputs == {"Up", "Right"}
\* SpawnAs ids: 5 is a tree next to the spawn point, 8 is no entity until the
\* first SpawnPlayer creates it
SpawnAsIds == {5, 8}
\* value of sim while the server runs
NoSim == <<>>
\* values of wire, mock and client in the runs they have no part in
NoWire == <<>>
NoMock == <<>>
NoClient == <<>>
NoView == <<>>

-----------------------------------------------------------------------------
(* game/mod.rs: value types *)

I32_MAX == 2147483647
I32_MIN == -I32_MAX - 1

Point(x, y) == [x |-> x, y |-> y]

None == <<>>
Some(v) == <<v>>

Directions == {"Up", "Down", "Left", "Right"}

delta(d) ==
    CASE d = "Up" -> <<0, -1>>
      [] d = "Down" -> <<0, 1>>
      [] d = "Left" -> <<-1, 0>>
      [] d = "Right" -> <<1, 0>>

blocks_sight_all(t) == t \in {"Tree", "Player"}

blocks_sight(t) == t = "Tree"

Entity(pos, name, type) == [position |-> pos, name |-> name, entity_type |-> type]

\* `a - b` on i32 overflows
sub_overflows(a, b) ==
    \/ b > 0 /\ a < I32_MIN + b
    \/ b < 0 /\ a > I32_MAX + b

\* `a - b` on i32 without overflow checks
wrapping_sub(a, b) ==
    IF b > 0 /\ a < I32_MIN + b THEN (((a - I32_MIN) - b) + I32_MAX) + 1
    ELSE IF b < 0 /\ a > I32_MAX + b THEN ((a - I32_MAX) - (b + 1)) + I32_MIN
    ELSE a - b

\* i32::abs without overflow checks: I32_MIN stays I32_MIN
wrapping_abs(v) == IF v = I32_MIN THEN I32_MIN ELSE IF v < 0 THEN -v ELSE v

\* `(a - b).abs()` panics in a build with overflow checks
abs_diff_panics(a, b) == sub_overflows(a, b) \/ a - b = I32_MIN

\* i32::wrapping_add
wrapping_add(a, b) ==
    IF b > 0 /\ a > I32_MAX - b THEN ((a - I32_MAX) + (b - 1)) + I32_MIN
    ELSE IF b < 0 /\ a < I32_MIN - b THEN ((a - I32_MIN) + (b + 1)) + I32_MAX
    ELSE a + b

\* i32::saturating_add
saturating_add(a, b) ==
    IF b > 0 /\ a > I32_MAX - b THEN I32_MAX
    ELSE IF b < 0 /\ a < I32_MIN - b THEN I32_MIN
    ELSE a + b

\* FxHashMap::insert: add or replace the entry for key k
MapInsert(m, k, v) == [i \in DOMAIN m \cup {k} |-> IF i = k THEN v ELSE m[i]]

EmptyMap == [i \in {} |-> 0]

\* u32 order on 32-bit patterns
u32_lt(a, b) == IF (a < 0) = (b < 0) THEN a < b ELSE b < 0

U32_MAX == -1

\* `self.0 += 1` overflows: a panic with overflow checks (debug build), a
\* wrap to 0 without them (release build)
next_overflows(gs) == gs.entity_gen = U32_MAX

\* EntityGenerator::next, the id it returns when it returns
next_id(gs) == IF gs.entity_gen = I32_MAX THEN I32_MIN ELSE gs.entity_gen + 1

tree_positions ==
    << Point(5, 5), Point(15, 5), Point(5, 15), Point(15, 15), Point(10, 5), Point(10, 15) >>

create_test_world(name) ==
    [entity_gen |-> Len(tree_positions),
     entities |-> [i \in 1..Len(tree_positions) |-> Entity(tree_positions[i], None, "Tree")],
     world_name |-> name]

\* A world as load_from_file returns it from a file an earlier session saved:
\* the test world after a player was spawned and entities 4, 5, 6 and 7 moved.
\* From the spawn point (10,10): tree 5 is adjacent, tree 6 stands behind it,
\* tree 4 is beyond the FOV radius but inside the margin box, trees 1..3 are
\* outside the box.
LoadedWorld ==
    [entity_gen |-> 7,
     entities |-> (1 :> Entity(Point(5, 5), None, "Tree")
                   @@ 2 :> Entity(Point(15, 5), None, "Tree")
                   @@ 3 :> Entity(Point(5, 15), None, "Tree")
                   @@ 4 :> Entity(Point(13, 10), None, "Tree")
                   @@ 5 :> Entity(Point(11, 10), None, "Tree")
                   @@ 6 :> Entity(Point(12, 10), None, "Tree")
                   @@ 7 :> Entity(Point(10, 12), Some("Bob"), "Player")),
     world_name |-> "w"]

spawn_player(gs, name) ==
    [gs EXCEPT !.entity_gen = next_id(gs),
                  !.entities = MapInsert(gs.entities, next_id(gs),
                                         Entity(Point(10, 10), Some(name), "Player"))]

move_entity_or_insert(gs, entity_id, direction) ==
    LET d == delta(direction)
    IN IF entity_id \in DOMAIN gs.entities
       THEN LET e == gs.entities[entity_id]
            IN [gs EXCEPT !.entities[entity_id].position =
                    Point(saturating_add(e.position.x, d[1]),
                          saturating_add(e.position.y, d[2]))]
       ELSE [gs EXCEPT !.entities =
                MapInsert(gs.entities, entity_id, Entity(Point(d[1], d[2]), None, "Player"))]

move_entity(gs, entity_id, direction) ==
    IF entity_id \in DOMAIN gs.entities
    THEN LET e == gs.entities[entity_id]
             d == delta(direction)
         IN [gs EXCEPT !.entities[entity_id].position =
                 Point(saturating_add(e.position.x, d[1]),
                       saturating_add(e.position.y, d[2]))]
    ELSE gs

apply_spawn_as_creates(gs, entity_id, action) ==
    CASE action[1] = "Move" -> move_entity(gs, entity_id, action[2])
      [] action[1] = "SpawnPlayer" -> spawn_player(gs, action[2])
      [] action[1] = "SpawnAs" ->
            IF action[2] \in DOMAIN gs.entities THEN gs
            ELSE [gs EXCEPT !.entities =
                     MapInsert(gs.entities, action[2],
                               Entity(Point(10, 10), None, "Player"))]
      [] action[1] = "SaveWorld" -> gs

\* apply: the GameState after the action (the events are in apply_events)
apply(gs, entity_id, action) ==
    CASE action[1] = "Move" -> move_entity(gs, entity_id, action[2])
      [] action[1] = "SpawnPlayer" -> spawn_player(gs, action[2])
      [] action[1] = "SpawnAs" -> gs
      [] action[1] = "SaveWorld" -> gs

apply_events(gs, entity_id, action) ==
    CASE action[1] = "Move" -> << <<"EntityMoved", entity_id>> >>
      [] action[1] = "SpawnPlayer" -> << <<"PlayerSpawned", next_id(gs)>> >>
      [] action[1] = "SpawnAs" -> << <<"SpawnAsRequested", action[2]>> >>
      [] action[1] = "SaveWorld" -> << <<"SaveRequested">> >>

encode_state_counter_reset(gs) == <<0, gs.entities, gs.world_name>>

\* bitcode::encode(gs): the fields in declaration order
encode_state(gs) == <<gs.entity_gen, gs.entities, gs.world_name>>

file_path(gs) == gs.world_name

\* how a call of save_to_file can end: <<"ok">>; <<"unopened">>, an error
\* before fs::write has opened the file (create_dir_all fails, the path
\* cannot be created); <<"cut", k>>, fs::write has created or truncated the
\* file and write_all fails after k parts of the encoding are written, for
\* every k short of the whole encoding: the file is left empty or with a
\* nonempty proper prefix
SaveOutcomes ==
    {<<"ok">>, <<"unopened">>}
        \cup {<<"cut", k>> : k \in 0..(Len(encode_state(LoadedWorld)) - 1)}

\* save_to_file ending with outcome o: the files afterwards
save_to_file(d, gs, o) ==
    CASE o[1] = "ok" -> MapInsert(d, file_path(gs), encode_state(gs))
      [] o[1] = "unopened" -> d
      [] o[1] = "cut" -> MapInsert(d, file_path(gs), SubSeq(encode_state(gs), 1, o[2]))

-----------------------------------------------------------------------------
(* fov: PlayerFov, as spec.md 4.3 describes it (the module is not in src/) *)

DEFAULT_FOV_RADIUS == 2
FOV_NETWORK_MARGIN == 1

Abs(v) == IF v < 0 THEN -v ELSE v
Max(a, b) == IF a >= b THEN a ELSE b
Sign(v) == IF v < 0 THEN -1 ELSE IF v > 0 THEN 1 ELSE 0

\* i*d/n rounded to the nearest integer, halves away from zero
RoundDiv(i, d, n) == Sign(d) * ((2 * i * Abs(d) + n) \div (2 * n))

\* cells of the entities that block sight
Occluders(entities) ==
    {<<entities[i].position.x, entities[i].position.y>> :
        i \in {j \in DOMAIN entities : blocks_sight(entities[j].entity_type)}}

\* ray march from origin to cell: cell is within the Chebyshev radius and no
\* occluder stands on a cell strictly between the two
cell_visible(origin, radius, occ, cell) ==
    LET dx == cell[1] - origin.x
        dy == cell[2] - origin.y
        n == Max(Abs(dx), Abs(dy))
    IN /\ n <= radius
       /\ \A i \in 1..(n - 1) :
            <<origin.x + RoundDiv(i, dx, n), origin.y + RoundDiv(i, dy, n)>> \notin occ

PlayerFov_new(radius) == [fov_radius |-> radius, current_fov |-> {}]

\* PlayerFov::recompute: replaces current_fov
recompute(pfov, origin, entities) ==
    LET r == pfov.fov_radius
        occ == Occluders(entities)
    IN [pfov EXCEPT !.current_fov =
           {cell \in ((origin.x - r)..(origin.x + r)) \X ((origin.y - r)..(origin.y + r)) :
               cell_visible(origin, r, occ, cell)}]

-----------------------------------------------------------------------------
(* net.rs: ServerState *)

ServerState_new(g) ==
    [game |-> g,
     endpoints |-> EmptyMap,
     unique_server_messages |-> EmptyMap,
     event_queue |-> <<>>,
     player_fovs |-> EmptyMap]

\* the `for (eid, action) in &events` loop of process_events from index i on;
\* acc = [game, disk, moved_players, handled]; outcomes = how the
\* save_to_file of each SaveWorld index ends; handled logs the events the
\* loop has acted on
RECURSIVE process_loop(_, _, _, _)
process_loop(acc, events, i, outcomes) ==
    IF i > Len(events) THEN acc
    ELSE LET eid == events[i][1]
             action == events[i][2]
             nxt == CASE action[1] = "Move" ->
                           [acc EXCEPT !.game = apply(acc.game, eid, action),
                                       !.moved_players = Append(acc.moved_players, eid),
                                       !.handled = Append(acc.handled, events[i])]
                      [] action[1] \in {"SpawnPlayer", "SpawnAs"} -> acc
                      [] action[1] = "SaveWorld" ->
                           [acc EXCEPT !.disk = save_to_file(acc.disk, acc.game, outcomes[i]),
                                       !.handled = Append(acc.handled, events[i])]
         IN process_loop(nxt, events, i + 1, outcomes)

\* the `for pid in moved_players` loop of process_events
recompute_moved(fovs, moved_players, g) ==
    LET moved == {moved_players[i] : i \in DOMAIN moved_players} \cap DOMAIN g.entities
    IN [pid \in DOMAIN fovs \cup moved |->
          IF pid \in moved
          THEN recompute(IF pid \in DOMAIN fovs THEN fovs[pid]
                                                ELSE PlayerFov_new(DEFAULT_FOV_RADIUS),
                         g.entities[pid].position, g.entities)
          ELSE fovs[pid]]

drain_one_per_tick(self) ==
    IF self.event_queue = <<>>
    THEN [events |-> <<>>, queue |-> <<>>]
    ELSE [events |-> <<Head(self.event_queue)>>, queue |-> Tail(self.event_queue)]

\* event_queue.drain(..).collect()
drain(self) == [events |-> self.event_queue, queue |-> <<>>]

process_events_newest_first(self, d, outcomes) ==
    LET dr == drain(self)
        r == process_loop([game |-> self.game, disk |-> d, moved_players |-> <<>>,
                           handled |-> <<>>],
                          [i \in 1..Len(dr.events) |-> dr.events[Len(dr.events) + 1 - i]],
                          1, [i \in {Len(dr.events) + 1 - j : j \in DOMAIN outcomes} |->
                                 outcomes[Len(dr.events) + 1 - i]])
    IN [self |-> [self EXCEPT !.event_queue = dr.queue,
                              !.game = r.game,
                              !.player_fovs = recompute_moved(self.player_fovs,
                                                              r.moved_players, r.game)],
        disk |-> r.disk,
        handled |-> r.handled]

process_events_recomputes_first(self, d, outcomes) ==
    LET dr == drain(self)
        r == process_loop([game |-> self.game, disk |-> d, moved_players |-> <<>>,
                           handled |-> <<>>],
                          dr.events, 1, outcomes)
    IN [self |-> [self EXCEPT !.event_queue = dr.queue,
                              !.game = r.game,
                              !.player_fovs = recompute_moved(self.player_fovs,
                                                              r.moved_players, self.game)],
        disk |-> r.disk,
        handled |-> r.handled]

process_events_save_error_returns(self, d, outcomes) ==
    LET dr == drain(self)
        bad == {i \in DOMAIN outcomes : outcomes[i] # <<"ok">>}
        stop == IF bad = {} THEN Len(dr.events)
                ELSE CHOOSE i \in bad : \A j \in bad : i <= j
        r == process_loop([game |-> self.game, disk |-> d, moved_players |-> <<>>,
                           handled |-> <<>>],
                          SubSeq(dr.events, 1, stop), 1, outcomes)
    IN [self |-> [self EXCEPT !.event_queue = dr.queue,
                              !.game = r.game,
                              !.player_fovs = recompute_moved(self.player_fovs,
                                                              r.moved_players, r.game)],
        disk |-> r.disk,
        handled |-> r.handled]

\* ServerState::process_events: [self, disk, handled] afterwards
process_events(self, d, outcomes) ==
    LET dr == drain(self)
        r == process_loop([game |-> self.game, disk |-> d, moved_players |-> <<>>,
                           handled |-> <<>>],
                          dr.events, 1, outcomes)
    IN [self |-> [self EXCEPT !.event_queue = dr.queue,
                              !.game = r.game,
                              !.player_fovs = recompute_moved(self.player_fovs,
                                                              r.moved_players, r.game)],
        disk |-> r.disk,
        handled |-> r.handled]

init_player_fov_unchecked(self, pid) ==
    [self EXCEPT !.player_fovs =
        MapInsert(self.player_fovs, pid,
                  IF pid \in DOMAIN self.game.entities
                  THEN recompute(PlayerFov_new(DEFAULT_FOV_RADIUS),
                                 self.game.entities[pid].position, self.game.entities)
                  ELSE PlayerFov_new(DEFAULT_FOV_RADIUS))]

\* ServerState::init_player_fov
init_player_fov(self, pid) ==
    IF pid \in DOMAIN self.game.entities
    THEN [self EXCEPT !.player_fovs =
             MapInsert(self.player_fovs, pid,
                       recompute(PlayerFov_new(DEFAULT_FOV_RADIUS),
                                 self.game.entities[pid].position, self.game.entities))]
    ELSE self

in_fov(pfov, entity) == <<entity.position.x, entity.position.y>> \in pfov.current_fov

in_margin(pfov, player, entity) ==
    LET radius == pfov.fov_radius + FOV_NETWORK_MARGIN
    IN /\ wrapping_abs(wrapping_sub(entity.position.x, player.position.x)) <= radius
       /\ wrapping_abs(wrapping_sub(entity.position.y, player.position.y)) <= radius

\* the evaluation of in_margin panics in a build with overflow checks; the
\* y test is evaluated only if the x test holds
in_margin_panics(pfov, player, entity) ==
    LET radius == pfov.fov_radius + FOV_NETWORK_MARGIN
    IN \/ abs_diff_panics(entity.position.x, player.position.x)
       \/ /\ Abs(entity.position.x - player.position.x) <= radius
          /\ abs_diff_panics(entity.position.y, player.position.y)

\* entities_for_player(pid) panics instead of returning
entities_for_player_panics(self, pid, build) ==
    /\ build = "debug"
    /\ pid \in DOMAIN self.player_fovs
    /\ pid \in DOMAIN self.game.entities
    /\ \E eid \in DOMAIN self.game.entities :
         in_margin_panics(self.player_fovs[pid], self.game.entities[pid],
                          self.game.entities[eid])

\* ServerState::entities_for_player
entities_for_player(self, pid) ==
    IF pid \notin DOMAIN self.player_fovs THEN self.game.entities
    ELSE IF pid \notin DOMAIN self.game.entities THEN EmptyMap
    ELSE LET pfov == self.player_fovs[pid]
             player == self.game.entities[pid]
             keep == {eid \in DOMAIN self.game.entities :
                        \/ in_fov(pfov, self.game.entities[eid])
                        \/ in_margin(pfov, player, self.game.entities[eid])}
         IN [eid \in keep |-> self.game.entities[eid]]

-----------------------------------------------------------------------------
(* net.rs: Echo::accept, the per-stream handler task *)

\* unique_server_messages.entry(endpoint_id).or_default().push(msg)
push_one_off(self, endpoint_id, msg) ==
    [self EXCEPT !.unique_server_messages =
        MapInsert(self.unique_server_messages, endpoint_id,
                  IF endpoint_id \in DOMAIN self.unique_server_messages
                  THEN Append(self.unique_server_messages[endpoint_id], msg)
                  ELSE <<msg>>)]

handle_spawn_player_without_fov(self, endpoint_id, name) ==
    LET pid == next_id(self.game)
        s1 == [self EXCEPT !.game = spawn_player(self.game, name)]
        s2 == [s1 EXCEPT !.endpoints = MapInsert(s1.endpoints, endpoint_id, pid)]
    IN push_one_off(s2, endpoint_id, <<"PlayerID", pid>>)

\* GameAction::SpawnPlayer(name) branch
handle_spawn_player(self, endpoint_id, name) ==
    LET pid == next_id(self.game)
        s1 == [self EXCEPT !.game = spawn_player(self.game, name)]
        s2 == [s1 EXCEPT !.endpoints = MapInsert(s1.endpoints, endpoint_id, pid)]
        s3 == init_player_fov(s2, pid)
    IN push_one_off(s3, endpoint_id, <<"PlayerID", pid>>)

handle_spawn_as_checked(self, endpoint_id, eid) ==
    IF /\ eid \in DOMAIN self.game.entities
       /\ \A e \in DOMAIN self.endpoints : self.endpoints[e] # eid
    THEN LET s1 == [self EXCEPT !.endpoints = MapInsert(self.endpoints, endpoint_id, eid)]
             s2 == init_player_fov(s1, eid)
         IN push_one_off(s2, endpoint_id, <<"PlayerID", eid>>)
    ELSE self

handle_spawn_as_retags(self, endpoint_id, eid) ==
    LET s1 == [self EXCEPT !.endpoints = MapInsert(self.endpoints, endpoint_id, eid)]
        s2 == init_player_fov(s1, eid)
        s3 == [s2 EXCEPT !.event_queue =
                 [i \in DOMAIN @ |->
                    IF endpoint_id \in DOMAIN self.endpoints
                       /\ @[i][1] = self.endpoints[endpoint_id]
                    THEN <<eid, @[i][2]>> ELSE @[i]]]
    IN push_one_off(s3, endpoint_id, <<"PlayerID", eid>>)

\* GameAction::SpawnAs(eid) branch
handle_spawn_as(self, endpoint_id, eid) ==
    LET s1 == [self EXCEPT !.endpoints = MapInsert(self.endpoints, endpoint_id, eid)]
        s2 == init_player_fov(s1, eid)
    IN push_one_off(s2, endpoint_id, <<"PlayerID", eid>>)

handle_other_without_binding(self, endpoint_id, other) ==
    [self EXCEPT !.event_queue =
        Append(self.event_queue,
               <<IF endpoint_id \in DOMAIN self.endpoints
                 THEN self.endpoints[endpoint_id] ELSE 0, other>>)]

\* `other =>` branch: Move and SaveWorld
handle_other(self, endpoint_id, other) ==
    IF endpoint_id \in DOMAIN self.endpoints
    THEN [self EXCEPT !.event_queue =
             Append(self.event_queue, <<self.endpoints[endpoint_id], other>>)]
    ELSE self

MAX_MESSAGE_SIZE == 10 * 1024 * 1024

recv_one_way_unlimited(p) ==
    IF p.content[1] = "Garbage" THEN <<"Err", "Decode">> ELSE <<"Ok", p.content>>

\* recv_one_way for a stream carrying payload p, a record of its size in
\* bytes and of what the bytes decode to (<<"Garbage">>: nothing)
recv_one_way(p) ==
    IF p.size > MAX_MESSAGE_SIZE THEN <<"Err", "TooLong">>
    ELSE IF p.content[1] = "Garbage" THEN <<"Err", "Decode">>
    ELSE <<"Ok", p.content>>

\* the match on the decoded GameAction, under the lock
handle_action(self, endpoint_id, action) ==
    CASE action[1] = "SpawnPlayer" -> handle_spawn_player(self, endpoint_id, action[2])
      [] action[1] = "SpawnAs" -> handle_spawn_as(self, endpoint_id, action[2])
      [] OTHER -> handle_other(self, endpoint_id, action)

-----------------------------------------------------------------------------
(* net.rs: Echo::accept, the tick task *)

Reverse(q) == [i \in 1..Len(q) |-> q[Len(q) + 1 - i]]

pop_one_offs_not_removed(self, rid) ==
    IF rid \in DOMAIN self.unique_server_messages
    THEN [self |-> self,
          responses |-> [i \in 1..Len(self.unique_server_messages[rid]) |->
                           <<"Server", Reverse(self.unique_server_messages[rid])[i]>>]]
    ELSE [self |-> self, responses |-> <<>>]

\* `while let Some(a) = x.pop() { responses.push(Message::Server(a)) }`
pop_one_offs(self, rid) ==
    IF rid \in DOMAIN self.unique_server_messages
    THEN [self |-> [self EXCEPT !.unique_server_messages[rid] = <<>>],
          responses |-> [i \in 1..Len(self.unique_server_messages[rid]) |->
                           <<"Server", Reverse(self.unique_server_messages[rid])[i]>>]]
    ELSE [self |-> self, responses |-> <<>>]

client_update_whole_world(self, rid) == self.game.entities

\* `match pid { Some(pid) => entities_for_player(pid), None => entities.clone() }`
client_update(self, rid) ==
    IF rid \in DOMAIN self.endpoints
    THEN entities_for_player(self, self.endpoints[rid])
    ELSE self.game.entities

tick_critical_snapshot_first(self, d, rid, outcomes) ==
    LET pe == process_events(self, d, outcomes)
        po == pop_one_offs(pe.self, rid)
    IN [self |-> po.self,
        disk |-> pe.disk,
        handled |-> pe.handled,
        responses |-> Append(po.responses,
                             <<"Server", <<"EntityMap", client_update(self, rid)>>>>)]

\* the block that holds the guard, then `responses.push(response)`:
\* [self, disk, handled, responses] when the guard is dropped
tick_critical(self, d, rid, outcomes) ==
    LET pe == process_events(self, d, outcomes)
        po == pop_one_offs(pe.self, rid)
    IN [self |-> po.self,
        disk |-> pe.disk,
        handled |-> pe.handled,
        responses |-> Append(po.responses,
                             <<"Server", <<"EntityMap", client_update(po.self, rid)>>>>)]

\* after a failed send: `break` leaves the `for r in responses` loop only,
\* the enclosing `loop` goes on to the next interval.tick()
pc_after_send_error == "timer"

\* after accept_uni fails: `break` leaves the accept loop
loop_after_accept_error == "ended"

\* after a stream's handler task logs an error: the accept loop, which
\* spawned the task, is not involved
loop_after_stream_error == "running"

\* `match recv_one_way(recv).await` in the stream's handler task
handle_stream(self, endpoint_id, result) ==
    IF result[1] = "Ok" /\ result[2][1] = "Client"
    THEN handle_action(self, endpoint_id, result[2][2])
    ELSE self

-----------------------------------------------------------------------------
(* Inputs *)

GameActions ==
    {<<"Move", d>> : d \in MoveInputs}
        \cup {<<"SpawnPlayer", n>> : n \in Names}
        \cup {<<"SpawnAs", i>> : i \in SpawnAsIds}
        \cup {<<"SaveWorld">>}

\* payloads that do not carry an acceptable client action: malformed bytes,
\* payloads over the ceiling (malformed, and a well-formed SpawnPlayer), and
\* server messages
OtherPayloads ==
    {[size |-> 4, content |-> <<"Garbage">>],
     [size |-> MAX_MESSAGE_SIZE, content |-> <<"Garbage">>],
     [size |-> MAX_MESSAGE_SIZE + 1, content |-> <<"Garbage">>],
     [size |-> MAX_MESSAGE_SIZE + 1, content |-> <<"Client", <<"SpawnPlayer", "Al">>>>],
     [size |-> 5, content |-> <<"Server", <<"PlayerID", 1>>>>],
     [size |-> 40, content |-> <<"Server", <<"EntityMap", EmptyMap>>>>]}

\* what recv_one_way returns for them
OtherResults == {recv_one_way(p) : p \in OtherPayloads}

SaveIndices(q) == {i \in 1..Len(q) : q[i][2][1] = "SaveWorld"}

-----------------------------------------------------------------------------
(* The server *)

Init ==
    /\ state = ServerState_new(LoadedWorld)
    /\ lock = <<>>
    /\ conn = [c \in Conns |-> "none"]
    /\ remote = [c \in Conns |-> "-"]
    /\ acceptLoop = [c \in Conns |-> "none"]
    /\ tickpc = [c \in Conns |-> "none"]
    /\ responses = [c \in Conns |-> <<>>]
    /\ disk = EmptyMap
    /\ applied = <<>>
    /\ enqueued = <<>>
    /\ queuedBy = [e \in Endpoints |-> <<>>]
    /\ sending = [c \in Conns |-> <<>>]
    /\ failed = [c \in Conns |-> FALSE]
    /\ handlers = [c \in Conns |-> 0]
    /\ nmsgs = 0
    /\ nticks = 0
    /\ sim = NoSim
    /\ wire = NoWire
    /\ mock = NoMock
    /\ client = NoClient
    /\ view = NoView

Accept_binds(c, e) ==
    /\ conn[c] = "none"
    /\ c = FirstConn \/ conn[FirstConn] # "none"
    /\ c = FirstConn => e = FirstEndpoint
    /\ conn' = [conn EXCEPT ![c] = "open"]
    /\ remote' = [remote EXCEPT ![c] = e]
    /\ acceptLoop' = [acceptLoop EXCEPT ![c] = "running"]
    /\ tickpc' = [tickpc EXCEPT ![c] = "timer"]
    /\ state' = [state EXCEPT !.endpoints = MapInsert(@, e, 0)]
    /\ UNCHANGED <<lock, responses, disk, applied, enqueued, queuedBy, sending,
                   failed, nmsgs, nticks, sim, wire, mock, client, view, handlers>>

\* Echo::accept is called for a new connection from endpoint e: the tick
\* task is spawned and the accept loop starts
Accept(c, e) ==
    /\ conn[c] = "none"
    /\ c = FirstConn \/ conn[FirstConn] # "none"
    /\ c = FirstConn => e = FirstEndpoint
    /\ conn' = [conn EXCEPT ![c] = "open"]
    /\ remote' = [remote EXCEPT ![c] = e]
    /\ acceptLoop' = [acceptLoop EXCEPT ![c] = "running"]
    /\ tickpc' = [tickpc EXCEPT ![c] = "timer"]
    /\ UNCHANGED <<state, lock, responses, disk, applied, enqueued, queuedBy, sending,
                   failed, nmsgs, nticks, sim, wire, mock, client, view, handlers>>

\* the handler tasks that have not finished, over all connections
RECURSIVE InFlight(_, _)
InFlight(h, cs) ==
    IF cs = {} THEN 0
    ELSE LET c == CHOOSE x \in cs : TRUE
         IN h[c] + InFlight(h, cs \ {c})

\* accept_uni returns a stream: the accept loop spawns a handler task for
\* it and goes back to accept_uni; the streams accepted are those the
\* handlers may still handle within MaxMsgs
AcceptStream(c) ==
    /\ acceptLoop[c] = "running"
    /\ nmsgs + InFlight(handlers, Conns) < MaxMsgs
    /\ handlers' = [handlers EXCEPT ![c] = @ + 1]
    /\ UNCHANGED <<state, lock, conn, remote, acceptLoop, tickpc, responses, disk,
                   applied, enqueued, queuedBy, sending, failed, nmsgs, nticks, sim,
                   wire, mock, client, view>>

\* a handler task has read its stream, which carries a client action: it
\* takes the lock, handles the action and releases the lock; the accept
\* loop that spawned it may have ended since
RecvAction(c, action) ==
    /\ handlers[c] > 0
    /\ lock = <<>>
    /\ nmsgs < MaxMsgs
    /\ handlers' = [handlers EXCEPT ![c] = @ - 1]
    /\ state' = handle_action(state, remote[c], action)
    /\ enqueued' = enqueued \o SubSeq(state'.event_queue, Len(state.event_queue) + 1,
                                      Len(state'.event_queue))
    /\ queuedBy' = [queuedBy EXCEPT ![remote[c]] =
                     IF state'.unique_server_messages # state.unique_server_messages
                     THEN Append(@, c)
                     ELSE @]
    /\ nmsgs' = nmsgs + 1
    /\ UNCHANGED <<lock, conn, remote, acceptLoop, tickpc, responses, disk,
                   applied, sending, failed, nticks, sim, wire, mock, client, view>>

\* a handler task's recv_one_way returns a ServerMessage or an error: the
\* task logs it and ends
RecvOther(c) ==
    /\ handlers[c] > 0
    /\ handlers' = [handlers EXCEPT ![c] = @ - 1]
    /\ state' \in {handle_stream(state, remote[c], r) : r \in OtherResults}
    /\ acceptLoop' = [acceptLoop EXCEPT ![c] =
                        IF @ = "running" THEN loop_after_stream_error ELSE @]
    /\ UNCHANGED <<lock, conn, remote, tickpc, responses, disk, applied, enqueued,
                   queuedBy, sending, failed, nmsgs, nticks, sim, wire, mock, client, view>>

AcceptFail_unbinds(c) ==
    /\ acceptLoop[c] = "running"
    /\ conn[c] = "open"
    /\ conn' = [conn EXCEPT ![c] = "closed"]
    /\ acceptLoop' = [acceptLoop EXCEPT ![c] = loop_after_accept_error]
    /\ state' = [state EXCEPT !.endpoints =
                    [k \in DOMAIN @ \ {remote[c]} |-> @[k]]]
    /\ UNCHANGED <<lock, remote, tickpc, responses, disk,
                   applied, enqueued, queuedBy, sending, failed, nmsgs, nticks, sim, wire, mock, client, view, handlers>>

\* the peer goes away: accept_uni returns Err and the accept loop breaks;
\* from now on open_uni fails on this connection
AcceptFail(c) ==
    /\ acceptLoop[c] = "running"
    /\ conn[c] = "open"
    /\ conn' = [conn EXCEPT ![c] = "closed"]
    /\ acceptLoop' = [acceptLoop EXCEPT ![c] = loop_after_accept_error]
    /\ UNCHANGED <<state, lock, remote, tickpc, responses, disk,
                   applied, enqueued, queuedBy, sending, failed, nmsgs, nticks, sim, wire, mock, client, view, handlers>>

\* what c's tick task computes between state.lock().await and its send
\* loop: process_events, the pop of the one-offs and the snapshot, all in
\* the block that holds the guard, and the push of the snapshot on
\* `responses` (nothing is awaited)
TickSection(c) ==
    /\ \E t \in {tick_critical(state, disk, remote[c], outcomes) :
                   outcomes \in [SaveIndices(state.event_queue) -> SaveOutcomes]} :
            /\ state' = t.self
            /\ disk' = t.disk
            /\ applied' = applied \o t.handled
            /\ responses' = [responses EXCEPT ![c] = t.responses]
            /\ sending' = [sending EXCEPT ![c] =
                  IF Len(t.responses) > 1 THEN Reverse(queuedBy[remote[c]]) ELSE <<>>]
            /\ queuedBy' = [queuedBy EXCEPT ![remote[c]] =
                  IF Len(t.responses) > 1 THEN <<>> ELSE @]
    /\ nticks' = nticks + 1
    /\ UNCHANGED <<conn, remote, acceptLoop, enqueued, failed, nmsgs, sim, wire, mock, client, view, handlers>>

\* interval.tick() fires, state.lock().await returns the guard, and the
\* critical section runs to the end of its block, where the guard is
\* dropped: the tick from the timer to the send loop in one step
Tick(c) ==
    /\ tickpc[c] = "timer"
    /\ lock = <<>>
    /\ nticks < MaxTicks
    /\ TickSection(c)
    /\ lock' = <<>>
    /\ tickpc' = [tickpc EXCEPT ![c] = "send"]

\* the same tick in two steps.  First interval.tick() fires and
\* state.lock().await returns the guard: the task holds the lock
TickLock(c) ==
    /\ tickpc[c] = "timer"
    /\ lock = <<>>
    /\ nticks < MaxTicks
    /\ lock' = <<c>>
    /\ tickpc' = [tickpc EXCEPT ![c] = "locked"]
    /\ UNCHANGED <<state, conn, remote, acceptLoop, handlers, responses, disk, applied,
                   enqueued, queuedBy, sending, failed, nmsgs, nticks, sim, wire, mock,
                   client, view>>

\* `guard` is a local of the loop body and not of the block: the task
\* enters `for r in responses` with the lock still held
TickBody_keeps_guard(c) ==
    /\ tickpc[c] = "locked"
    /\ lock = <<c>>
    /\ TickSection(c)
    /\ lock' = <<c>>
    /\ tickpc' = [tickpc EXCEPT ![c] = "send"]

\* then the critical section runs under `guard`, a local of the block
\* that yields `client_update`: the guard is dropped where the block ends,
\* before `for r in responses`
TickBody(c) ==
    /\ tickpc[c] = "locked"
    /\ lock = <<c>>
    /\ TickSection(c)
    /\ lock' = <<>>
    /\ tickpc' = [tickpc EXCEPT ![c] = "send"]

\* one iteration of `for r in responses`: send_one_way succeeds
TickSendOk(c) ==
    /\ tickpc[c] = "send"
    /\ conn[c] = "open"
    /\ responses' = [responses EXCEPT ![c] = Tail(@)]
    /\ sending' = [sending EXCEPT ![c] = IF @ = <<>> THEN @ ELSE Tail(@)]
    /\ tickpc' = [tickpc EXCEPT ![c] = IF Len(responses[c]) = 1 THEN "timer" ELSE "send"]
    /\ UNCHANGED <<state, lock, conn, remote, acceptLoop, disk, applied, enqueued,
                   queuedBy, failed, nmsgs, nticks, sim, wire, mock, client, view, handlers>>

TickSendErr_requeues(c) ==
    /\ tickpc[c] = "send"
    /\ conn[c] = "closed"
    /\ responses' = [responses EXCEPT ![c] = <<>>]
    /\ sending' = [sending EXCEPT ![c] = <<>>]
    /\ failed' = [failed EXCEPT ![c] = TRUE]
    /\ tickpc' = [tickpc EXCEPT ![c] = pc_after_send_error]
    /\ state' = IF sending[c] = <<>> THEN state
                 ELSE [state EXCEPT !.unique_server_messages[remote[c]] =
                         @ \o [i \in 1..Len(sending[c]) |-> responses[c][i][2]]]
    /\ UNCHANGED <<lock, conn, remote, acceptLoop, disk, applied, enqueued,
                   queuedBy, nmsgs, nticks, sim, wire, mock, client, view, handlers>>

\* one iteration of `for r in responses`: send_one_way fails, the rest of
\* `responses` is dropped
TickSendErr(c) ==
    /\ tickpc[c] = "send"
    /\ conn[c] = "closed"
    /\ responses' = [responses EXCEPT ![c] = <<>>]
    /\ sending' = [sending EXCEPT ![c] = <<>>]
    /\ failed' = [failed EXCEPT ![c] = TRUE]
    /\ tickpc' = [tickpc EXCEPT ![c] = pc_after_send_error]
    /\ UNCHANGED <<state, lock, conn, remote, acceptLoop, disk, applied, enqueued,
                   queuedBy, nmsgs, nticks, sim, wire, mock, client, view, handlers>>

Next ==
    \/ \E c \in Conns, e \in Endpoints : Accept(c, e)
    \/ \E c \in Conns : AcceptStream(c)
    \/ \E c \in Conns, a \in GameActions : RecvAction(c, a)
    \/ \E c \in Conns : RecvOther(c)
    \/ \E c \in Conns : AcceptFail(c)
    \/ \E c \in Conns : Tick(c)
    \/ \E c \in Conns : TickSendOk(c)
    \/ \E c \in Conns : TickSendErr(c)

Spec == Init /\ [][Next]_vars

-----------------------------------------------------------------------------
(* Properties *)

\* the step is the critical section of a tick
IsTick == nticks' # nticks

\* C1: every tick empties the shared queue, whichever connection runs it, and
\* acts on exactly the events that were queued; at every moment each event ever
\* queued is either still pending or has been acted on exactly once, in order.
C1_DrainExactlyOnce ==
    [][/\ enqueued' = applied' \o state'.event_queue
       /\ IsTick => /\ state'.event_queue = <<>>
                    /\ applied' = applied \o state.event_queue]_vars

\* one tick of one connection has emptied a queue of two actions, one sent
\* by each of the two connections' endpoints, and applied both
C1_Witness ==
    \E c \in Conns :
        /\ tickpc[c] = "send"
        /\ nticks = 1
        /\ Len(applied) = 2
        /\ applied[1][1] # applied[2][1]
        /\ applied = enqueued
        /\ state.event_queue = <<>>

\* |a - b| <= w for two i32 values a, b and a small w >= 0, as integers
\* (evaluated without leaving the i32 range)
Within(a, b, w) ==
    /\ (b >= I32_MIN + w) => a >= b - w
    /\ (b <= I32_MAX - w) => a <= b + w

\* the entities of self whose cell is in pid's visible set or inside the
\* axis-aligned box of half-width fov_radius + margin around pid
FovOrBox(self, pid) ==
    LET es == self.game.entities
        pfov == self.player_fovs[pid]
        w == pfov.fov_radius + FOV_NETWORK_MARGIN
        px == es[pid].position.x
        py == es[pid].position.y
        visible == {e \in DOMAIN es : <<es[e].position.x, es[e].position.y>> \in pfov.current_fov}
        box == {e \in DOMAIN es : /\ Within(es[e].position.x, px, w)
                                  /\ Within(es[e].position.y, py, w)}
    IN [visible |-> visible, box |-> box]

Restrict(m, keys) == [k \in keys |-> m[k]]

\* the step is the critical section of a tick of connection c
TickOf(c) == IsTick /\ tickpc[c] = "timer" /\ tickpc'[c] = "send"

\* the entity map of the snapshot that ends the send list q
Snapshot(q) == q[Len(q)][2][2]

\* C3: the snapshot a tick computes is the FOV-or-box set when the connection
\* is bound to an id that has a FOV record, and the entire entity map
\* otherwise (not bound, or bound to an id without a FOV record); in both
\* cases taken from the world as the tick leaves it.
C3_SnapshotChoice ==
    [][\A c \in Conns : TickOf(c) =>
          LET rid == remote[c]
              self == state'
              snap == Snapshot(responses'[c])
          IN IF rid \in DOMAIN self.endpoints
                /\ self.endpoints[rid] \in DOMAIN self.player_fovs
             THEN LET fb == FovOrBox(self, self.endpoints[rid])
                  IN snap = Restrict(self.game.entities, fb.visible \cup fb.box)
             ELSE snap = self.game.entities]_vars

\* a tick has computed a filtered snapshot that leaves part of the world out
C3_Witness ==
    \E c \in Conns :
        /\ tickpc[c] = "send"
        /\ Len(responses[c]) >= 1
        /\ remote[c] \in DOMAIN state.endpoints
        /\ state.endpoints[remote[c]] \in DOMAIN state.player_fovs
        /\ DOMAIN Snapshot(responses[c]) # DOMAIN state.game.entities
        /\ DOMAIN Snapshot(responses[c]) # {}

\* the one-off messages queued under endpoint rid
OneOffs(self, rid) ==
    IF rid \in DOMAIN self.unique_server_messages
    THEN self.unique_server_messages[rid]
    ELSE <<>>

\* q1 and q2 hold the same items, each as many times
SameItems(q1, q2) ==
    /\ Len(q1) = Len(q2)
    /\ \E p \in Permutations(1..Len(q1)) : \A i \in 1..Len(q1) : q1[i] = q2[p[i]]

\* a tick of c takes every one-off queued under c's endpoint out of the queue
\* and puts it in the send list, before the snapshot that ends the list
TickPopsOneOffs(c) ==
    TickOf(c) =>
        LET old == OneOffs(state, remote[c])
            q == responses'[c]
        IN /\ OneOffs(state', remote[c]) = <<>>
           /\ Len(q) = Len(old) + 1
           /\ q[Len(q)][2][1] = "EntityMap"
           /\ SameItems([i \in 1..Len(old) |-> q[i][2]], old)
           /\ \A i \in 1..Len(old) : q[i][2][1] = "PlayerID"

\* outside a tick of c, the send list of c only loses messages: a one-off in
\* it is never put back and never sent twice
SendListShrinks(c) ==
    (~TickOf(c) /\ responses'[c] # responses[c]) =>
        /\ responses[c] # <<>>
        /\ responses'[c] \in {Tail(responses[c]), <<>>}

\* outside a tick of c, the send list of c loses its head only: every message
\* in it is sent, in order
SendListSentInOrder(c) ==
    (~TickOf(c) /\ responses'[c] # responses[c]) =>
        /\ responses[c] # <<>>
        /\ responses'[c] = Tail(responses[c])

\* C4 (as stated): each tick of a connection empties the connection's one-off
\* queue and sends the messages on that connection before the snapshot; a
\* one-off is sent at most once and never on a connection other than the one
\* whose handler queued it.
C4_OneOffsPerConnection ==
    [][\A c \in Conns :
          /\ TickPopsOneOffs(c)
          /\ SendListSentInOrder(c)
          /\ \A i \in DOMAIN sending'[c] : sending'[c][i] = c]_vars

\* C4 (amended): each tick of a connection empties the one-off queue of the
\* connection's remote endpoint and puts the messages in its send list before
\* the snapshot; the list is sent in order until a send fails, which drops the
\* rest. A one-off is sent at most once and only on a connection of the
\* endpoint it was queued under, which may be another connection than the one
\* whose handler queued it.
C4_OneOffsPerEndpoint ==
    [][\A c \in Conns :
          /\ TickPopsOneOffs(c)
          /\ SendListShrinks(c)
          /\ Len(sending'[c]) = (IF responses'[c] = <<>> THEN 0 ELSE Len(responses'[c]) - 1)
          /\ \A i \in DOMAIN sending'[c] : remote'[sending'[c][i]] = remote'[c]]_vars

\* a tick of one connection is about to send a one-off that the handler of
\* another connection of the same endpoint queued
C4_Witness ==
    \E c \in Conns :
        /\ tickpc[c] = "send"
        /\ Len(responses[c]) >= 2
        /\ responses[c][1][2][1] = "PlayerID"
        /\ sending[c] # <<>>
        /\ sending[c][1] # c
        /\ remote[sending[c][1]] = remote[c]
        /\ OneOffs(state, remote[c]) = <<>>

\* the step is a failed send of c's tick task or a failed accept of c's
\* accept loop
FailureOf(c) ==
    \/ tickpc[c] = "send" /\ conn[c] = "closed" /\ tickpc'[c] # tickpc[c]
    \/ conn[c] = "open" /\ conn'[c] = "closed"
    \/ failed'[c] /\ ~failed[c]

\* C6: a send or receive failure on one connection changes nothing in the
\* shared state or on disk and nothing of any other connection; a tick of
\* another connection taken after the failure still applies the queued
\* actions and ends its send list with a snapshot.
C6_FailureIsolated ==
    [][\A c \in Conns :
          /\ FailureOf(c) =>
               /\ state' = state /\ disk' = disk /\ lock' = lock
               /\ applied' = applied /\ enqueued' = enqueued
               /\ \A d \in Conns \ {c} :
                    /\ conn'[d] = conn[d] /\ acceptLoop'[d] = acceptLoop[d]
                    /\ tickpc'[d] = tickpc[d] /\ responses'[d] = responses[d]
                    /\ failed'[d] = failed[d]
          /\ \A d \in Conns \ {c} :
               ((failed[c] \/ conn[c] = "closed") /\ TickOf(d)) =>
                    /\ applied' = applied \o state.event_queue
                    /\ responses'[d] # <<>>
                    /\ responses'[d][Len(responses'[d])][2][1] = "EntityMap"]_vars

\* after a failed send on one connection, another connection has ticked,
\* applied a queued action and is sending
C6_Witness ==
    \E c, d \in Conns :
        /\ c # d
        /\ failed[c] /\ conn[c] = "closed"
        /\ tickpc[c] = "timer"
        /\ conn[d] = "open" /\ tickpc[d] = "send" /\ responses[d] # <<>>
        /\ nticks = 2
        /\ applied # <<>>

\* C7: after a failed send the tick task of that connection performs no
\* further tick and sends nothing more, and after a failed stream accept the
\* accept loop of that connection handles no further stream.
C7_TasksEndOnFailure ==
    [][\A c \in Conns :
          /\ failed[c] => (~TickOf(c) /\ responses'[c] = responses[c])
          /\ conn[c] = "closed" => acceptLoop'[c] = "ended"]_vars

\* a handler task of connection c is about to handle its stream
MayHandle(c) == handlers[c] > 0

\* the step handles a SpawnPlayer or SpawnAs received on connection c: a
\* PlayerID naming the endpoint's new binding is queued under c's endpoint
SpawnOn(c) ==
    /\ nmsgs' = nmsgs + 1
    /\ handlers'[c] = handlers[c] - 1
    /\ remote[c] \in DOMAIN state'.endpoints
    /\ queuedBy'[remote[c]] = Append(queuedBy[remote[c]], c)
    /\ OneOffs(state', remote[c])
         = Append(OneOffs(state, remote[c]), <<"PlayerID", state'.endpoints[remote[c]]>>)

\* C8 (as stated): once a connection is bound, no later message or tick
\* removes the binding or changes the entity id.
C8_BindingFixed ==
    [][\A c \in Conns : (conn[c] # "none" /\ remote[c] \in DOMAIN state.endpoints) =>
          /\ remote[c] \in DOMAIN state'.endpoints
          /\ state'.endpoints[remote[c]] = state.endpoints[remote[c]]]_vars

\* C8 (amended): a binding is never removed, and the entity id it names
\* changes only when a later SpawnPlayer or SpawnAs of the same endpoint is
\* handled, which rebinds the endpoint to the id it announces; Move,
\* SaveWorld, ticks and failures leave every binding as it is.
C8_BindingOnlyRebound ==
    [][\A e \in DOMAIN state.endpoints :
          /\ e \in DOMAIN state'.endpoints
          /\ state'.endpoints[e] # state.endpoints[e]
               => \E c \in Conns : remote[c] = e /\ SpawnOn(c)]_vars

\* an endpoint has spawned twice and is bound to the id of the second spawn,
\* which differs from the first
C8_Witness ==
    \E e \in DOMAIN state.endpoints :
        LET q == OneOffs(state, e)
        IN /\ Len(q) = 2
           /\ q[1][2] # q[2][2]
           /\ state.endpoints[e] = q[2][2]

\* while no connection with a handler task in flight is bound, a handled
\* message that is not a spawn changes nothing, and the snapshot of an unbound
\* connection's tick is the entire world
UnboundDropsAndSeesAll ==
    /\ ((\A c \in Conns : handlers[c] > 0 => remote[c] \notin DOMAIN state.endpoints)
        /\ nmsgs' # nmsgs /\ DOMAIN state'.endpoints = DOMAIN state.endpoints)
         => state' = state
    /\ \A c \in Conns : (TickOf(c) /\ remote[c] \notin DOMAIN state'.endpoints)
         => Snapshot(responses'[c]) = state'.game.entities

\* C9 (as stated): a newly accepted connection starts unbound and becomes
\* bound only by a SpawnPlayer or SpawnAs received on that same connection;
\* until then its Move and SaveWorld are dropped and its snapshots are the
\* entire world.
C9_BoundOnlyByOwnSpawn ==
    [][/\ \A c \in Conns :
            /\ (conn[c] = "none" /\ conn'[c] = "open")
                 => remote'[c] \notin DOMAIN state'.endpoints
            /\ (conn[c] # "none" /\ remote[c] \notin DOMAIN state.endpoints
                /\ remote[c] \in DOMAIN state'.endpoints) => SpawnOn(c)
       /\ UnboundDropsAndSeesAll]_vars

\* C9 (amended): bindings belong to remote endpoint ids. Every endpoint
\* starts unbound and becomes bound only by a SpawnPlayer or SpawnAs received
\* on a connection of that endpoint; accepting a connection binds nothing, so
\* a new connection is bound exactly when its endpoint already is. While its
\* endpoint is unbound a connection's Move and SaveWorld are dropped and its
\* snapshots are the entire world.
C9_BoundOnlyByEndpointSpawn ==
    /\ state.endpoints = EmptyMap
    /\ [][/\ \A e \in Endpoints :
               (e \notin DOMAIN state.endpoints /\ e \in DOMAIN state'.endpoints)
                 => \E c \in Conns : remote[c] = e /\ SpawnOn(c)
          /\ \A c \in Conns : (conn[c] = "none" /\ conn'[c] = "open")
                 => state'.endpoints = state.endpoints
          /\ UnboundDropsAndSeesAll]_vars

\* a connection has been accepted from an endpoint that an earlier connection
\* bound, with no message handled since
C9_Witness ==
    \E c, d \in Conns :
        /\ c # d
        /\ remote[c] = remote[d]
        /\ remote[c] \in DOMAIN state.endpoints
        /\ queuedBy[remote[c]] # <<>>
        /\ \A i \in DOMAIN queuedBy[remote[c]] : queuedBy[remote[c]][i] = c
        /\ conn[d] = "open" /\ tickpc[d] = "timer"
        /\ nticks = 0

\* C10: a Move or SaveWorld received on a connection whose endpoint has no
\* bound entity is dropped: the handler leaves the pending queue, the world,
\* the bindings, the FOV records and the one-off queues as they were.
C10_UnboundActionDropped ==
    \A c \in Conns : \A a \in GameActions :
        (/\ MayHandle(c)
         /\ a[1] \in {"Move", "SaveWorld"}
         /\ remote[c] \notin DOMAIN state.endpoints)
        => LET after == handle_action(state, remote[c], a)
           IN /\ after.event_queue = state.event_queue
              /\ after.game = state.game
              /\ after.endpoints = state.endpoints
              /\ after.player_fovs = state.player_fovs
              /\ after.unique_server_messages = state.unique_server_messages

\* messages have been handled on an unbound connection and a tick has run,
\* and nothing was queued, applied or bound
C10_Witness ==
    /\ nmsgs = MaxMsgs
    /\ nticks >= 1
    /\ state = ServerState_new(LoadedWorld)
    /\ applied = <<>> /\ enqueued = <<>>
    /\ \E c \in Conns : acceptLoop[c] = "running"

\* what handling SpawnPlayer(name) on connection c would do to the state
SpawnPlayerEffects(c, name) ==
    LET rid == remote[c]
        id == next_id(state.game)
        after == handle_action(state, rid, <<"SpawnPlayer", name>>)
    IN /\ id \notin DOMAIN state.game.entities
       /\ DOMAIN after.game.entities = DOMAIN state.game.entities \cup {id}
       /\ after.game.entities[id] = Entity(Point(10, 10), Some(name), "Player")
       /\ \A e \in DOMAIN state.game.entities : after.game.entities[e] = state.game.entities[e]
       /\ rid \in DOMAIN after.endpoints /\ after.endpoints[rid] = id
       /\ DOMAIN after.player_fovs = DOMAIN state.player_fovs \cup {id}
       /\ OneOffs(after, rid) = Append(OneOffs(state, rid), <<"PlayerID", id>>)
       /\ \A e \in DOMAIN after.unique_server_messages \ {rid} :
            OneOffs(after, e) = OneOffs(state, e)
       /\ after.event_queue = state.event_queue

\* a step that adds an entity to the world is the handling of a spawn: in the
\* same step the entity's id is bound, gets its FOV record computed from the
\* spawn position and is announced, and the step is not a tick
SpawnIsOneStep ==
    \A id \in DOMAIN state'.game.entities \ DOMAIN state.game.entities :
        /\ \E c \in Conns : SpawnOn(c) /\ state'.endpoints[remote[c]] = id
        /\ state'.player_fovs
             = MapInsert(state.player_fovs, id,
                         recompute(PlayerFov_new(DEFAULT_FOV_RADIUS),
                                   Point(10, 10), state'.game.entities))
        /\ ~IsTick /\ lock = <<>> /\ lock' = <<>>
        /\ responses' = responses

\* C11: handling SpawnPlayer(name) is one step under the lock: it adds a new
\* Player entity, binds the connection's endpoint to its id, creates the FOV
\* record computed from the spawn position and appends exactly one
\* PlayerID(id) to the endpoint's one-off queue; no state in between exists
\* for a tick to observe.
C11_SpawnPlayerAtomic ==
    /\ [](\A c \in Conns : \A name \in Names :
            MayHandle(c) => SpawnPlayerEffects(c, name))
    /\ [][SpawnIsOneStep]_vars

\* a tick taken after a SpawnPlayer sends the PlayerID of the new, bound
\* entity, which has its FOV record, followed by a filtered snapshot that
\* holds the entity
C11_Witness ==
    \E c \in Conns :
        /\ tickpc[c] = "send"
        /\ Len(responses[c]) = 2
        /\ remote[c] \in DOMAIN state.endpoints
        /\ LET id == state.endpoints[remote[c]]
           IN /\ id \notin DOMAIN LoadedWorld.entities
              /\ id \in DOMAIN state.game.entities
              /\ id \in DOMAIN state.player_fovs
              /\ responses[c][1] = <<"Server", <<"PlayerID", id>>>>
              /\ id \in DOMAIN Snapshot(responses[c])
              /\ DOMAIN Snapshot(responses[c]) # DOMAIN state.game.entities

\* what handling SpawnAs(id) on connection c would do to the state
SpawnAsEffects(c, id) ==
    LET rid == remote[c]
        after == handle_action(state, rid, <<"SpawnAs", id>>)
    IN /\ rid \in DOMAIN after.endpoints /\ after.endpoints[rid] = id
       /\ \A e \in DOMAIN state.endpoints \ {rid} :
            e \in DOMAIN after.endpoints /\ after.endpoints[e] = state.endpoints[e]
       /\ OneOffs(after, rid) = Append(OneOffs(state, rid), <<"PlayerID", id>>)
       /\ after.game = state.game
       /\ after.event_queue = state.event_queue
       /\ DOMAIN after.player_fovs
            = DOMAIN state.player_fovs
              \cup (IF id \in DOMAIN state.game.entities THEN {id} ELSE {})

\* a step that handles a SpawnAs leaves the world alone and creates the FOV
\* record of the claimed id, computed from its entity's position, only if the
\* id has an entity
SpawnAsStep ==
    \A c \in Conns :
        (SpawnOn(c) /\ DOMAIN state'.game.entities = DOMAIN state.game.entities) =>
            LET id == state'.endpoints[remote[c]]
            IN /\ state'.game = state.game
               /\ state'.player_fovs
                    = IF id \in DOMAIN state.game.entities
                      THEN MapInsert(state.player_fovs, id,
                                     recompute(PlayerFov_new(DEFAULT_FOV_RADIUS),
                                               state.game.entities[id].position,
                                               state.game.entities))
                      ELSE state.player_fovs

\* C12: handling SpawnAs(id) binds the connection's endpoint to the id the
\* client supplied and queues PlayerID(id) for it, whether or not an entity
\* with that id exists and whether or not another endpoint is bound to it; the
\* world is not changed, and a FOV record is created only when the entity
\* exists.
C12_SpawnAsUnchecked ==
    /\ [](\A c \in Conns : \A id \in SpawnAsIds \cup {7} :
            MayHandle(c) => SpawnAsEffects(c, id))
    /\ [][SpawnAsStep]_vars

\* two endpoints have claimed the same id, which has no entity: both are bound
\* to it, both have its PlayerID queued, and no FOV record exists for it
C12_Witness ==
    \E e1, e2 \in DOMAIN state.endpoints :
        /\ e1 # e2
        /\ state.endpoints[e1] = state.endpoints[e2]
        /\ state.endpoints[e1] \notin DOMAIN state.game.entities
        /\ state.endpoints[e1] \notin DOMAIN state.player_fovs
        /\ OneOffs(state, e1) = << <<"PlayerID", state.endpoints[e1]>> >>
        /\ OneOffs(state, e2) = << <<"PlayerID", state.endpoints[e2]>> >>
        /\ state.game = LoadedWorld

-----------------------------------------------------------------------------
(* game/mod.rs on its own: apply called on a world.  sim is a record:       *)
(*   build     "debug" (overflow checks: panic) or "release" (wrap)         *)
(*   start     the world the run started from                               *)
(*   w         the world                                                    *)
(*   prev      w before the last apply                                      *)
(*   last      the last (actor id, action) applied to w, <<>> at the start  *)
(*   ev        the events the last apply returned                           *)
(*   ids       the ids spawn_player has returned for w, in order            *)
(*   steps     number of calls on w                                         *)
(*   panicked  the last call panicked (the run ends)                        *)

Builds == {"debug", "release"}

\* a world as load_from_file returns it from a file: the generator is one
\* below u32::MAX, a player stands on a corner of the i32 grid, another at
\* negative coordinates
EdgeWorld ==
    [entity_gen |-> -2,
     entities |-> (1 :> Entity(Point(5, 5), None, "Tree")
                   @@ 2 :> Entity(Point(I32_MAX, I32_MIN), Some("Bob"), "Player")
                   @@ -2 :> Entity(Point(-3, 0), Some("Max"), "Player")),
     world_name |-> "e"]

Worlds == {create_test_world("t"), LoadedWorld, EdgeWorld}

\* the (actor id, action) pairs tried: actor 2 has an entity in every world
\* of Worlds, actor 99 has none
WInputs ==
    {<<a, <<"Move", d>>>> : a \in {2, 99}, d \in Directions}
    \cup {<<99, <<"SpawnPlayer", "Al">>>>, <<2, <<"SpawnAs", 1>>>>,
          <<2, <<"SpawnAs", 99>>>>, <<2, <<"SaveWorld">>>>}

netvars == <<state, lock, conn, remote, acceptLoop, handlers, tickpc, responses, disk,
             applied, enqueued, queuedBy, sending, failed, nmsgs, nticks>>

\* apply panics: EntityGenerator::next overflows in a build that checks
apply_panics(gs, action, build) ==
    action[1] = "SpawnPlayer" /\ next_overflows(gs) /\ build = "debug"

InitW ==
    /\ state = ServerState_new(LoadedWorld)
    /\ lock = <<>>
    /\ conn = [c \in Conns |-> "none"]
    /\ remote = [c \in Conns |-> "-"]
    /\ acceptLoop = [c \in Conns |-> "none"]
    /\ tickpc = [c \in Conns |-> "none"]
    /\ responses = [c \in Conns |-> <<>>]
    /\ disk = EmptyMap
    /\ applied = <<>>
    /\ enqueued = <<>>
    /\ queuedBy = [e \in Endpoints |-> <<>>]
    /\ sending = [c \in Conns |-> <<>>]
    /\ failed = [c \in Conns |-> FALSE]
    /\ handlers = [c \in Conns |-> 0]
    /\ nmsgs = 0
    /\ nticks = 0
    /\ \E g \in Worlds, b \in Builds :
         sim = [build |-> b, start |-> g, w |-> g, prev |-> g,
                last |-> <<>>, ev |-> <<>>, ids |-> <<>>,
                steps |-> 0, panicked |-> FALSE]
    /\ wire = NoWire
    /\ mock = NoMock
    /\ client = NoClient
    /\ view = NoView

\* apply(&mut w, eid, &action)
ApplyW(eid, action) ==
    /\ ~sim.panicked
    /\ sim.steps < MaxSteps
    /\ sim' = IF apply_panics(sim.w, action, sim.build)
              THEN [sim EXCEPT !.panicked = TRUE, !.prev = sim.w,
                               !.last = <<eid, action>>,
                               !.steps = @ + 1]
              ELSE [sim EXCEPT !.w = apply(sim.w, eid, action),
                               !.prev = sim.w,
                               !.last = <<eid, action>>,
                               !.ev = apply_events(sim.w, eid, action),
                               !.ids = IF action[1] = "SpawnPlayer"
                                       THEN Append(@, next_id(sim.w)) ELSE @,
                               !.steps = @ + 1]
    /\ UNCHANGED <<netvars, wire, mock, client, view>>

NextW == \E i \in WInputs : ApplyW(i[1], i[2])

SpecW == InitW /\ [][NextW]_vars

\* the unit delta of a direction
UnitDelta(d) ==
    IF d = "Up" THEN <<0, -1>>
    ELSE IF d = "Down" THEN <<0, 1>>
    ELSE IF d = "Left" THEN <<-1, 0>>
    ELSE <<1, 0>>

\* v moved by a unit step dv, staying at the i32 bound it would cross
StepWithin(v, dv) ==
    IF dv = 1 THEN (IF v = I32_MAX THEN I32_MAX ELSE v + 1)
    ELSE IF dv = -1 THEN (IF v = I32_MIN THEN I32_MIN ELSE v - 1)
    ELSE v

\* the last call on w was a Move by an actor that had an entity
LastMoveOfEntity ==
    /\ sim.last # <<>>
    /\ ~sim.panicked
    /\ sim.last[2][1] = "Move"
    /\ sim.last[1] \in DOMAIN sim.prev.entities

\* C14: a Move(direction) of an actor that has an entity puts the actor at its
\* old position plus the direction's unit delta, each coordinate staying at
\* the i32 bound it would cross; negative coordinates are ordinary values.
\* Nothing else in the world changes.
C14_MoveSaturates ==
    LastMoveOfEntity =>
        LET id == sim.last[1]
            d == UnitDelta(sim.last[2][2])
            old == sim.prev.entities[id]
            new == sim.w.entities[id]
        IN /\ DOMAIN sim.w.entities = DOMAIN sim.prev.entities
           /\ new.position.x = StepWithin(old.position.x, d[1])
           /\ new.position.y = StepWithin(old.position.y, d[2])
           /\ new.position.x \in I32_MIN..I32_MAX
           /\ new.position.y \in I32_MIN..I32_MAX
           /\ new.name = old.name /\ new.entity_type = old.entity_type
           /\ \A e \in DOMAIN sim.prev.entities \ {id} :
                sim.w.entities[e] = sim.prev.entities[e]
           /\ sim.w.entity_gen = sim.prev.entity_gen
           /\ sim.w.world_name = sim.prev.world_name

\* an entity one step from the corner (I32_MAX, I32_MIN) has been moved Up
\* and stayed at y = I32_MIN, after a Left that took it off x = I32_MAX
C14_Witness ==
    /\ LastMoveOfEntity
    /\ sim.steps >= 2
    /\ sim.last = <<2, <<"Move", "Up">>>>
    /\ sim.prev.entities[2].position = Point(I32_MAX - 1, I32_MIN)
    /\ sim.w.entities[2].position = Point(I32_MAX - 1, I32_MIN)

\* the last call on w was a Move by an actor that had no entity
LastMoveOfNobody ==
    /\ sim.last # <<>>
    /\ sim.last[2][1] = "Move"
    /\ sim.last[1] \notin DOMAIN sim.prev.entities

\* C15: a Move whose actor id has no entity changes nothing in the world
\* (entity map, generator counter, world name), does not fail, and apply
\* returns exactly one event, EntityMoved naming the actor id.
C15_MoveOfNobodyIsNoop ==
    LastMoveOfNobody =>
        /\ ~sim.panicked
        /\ sim.w.entities = sim.prev.entities
        /\ sim.w.entity_gen = sim.prev.entity_gen
        /\ sim.w.world_name = sim.prev.world_name
        /\ sim.ev = << <<"EntityMoved", sim.last[1]>> >>
        /\ Len(sim.ev) = 1

\* an actor without entity has been moved after the world had changed
C15_Witness ==
    /\ LastMoveOfNobody
    /\ sim.steps >= 2
    /\ sim.prev # sim.start
    /\ sim.last[1] = 99
    /\ 99 \notin DOMAIN sim.w.entities
    /\ sim.ev = << <<"EntityMoved", 99>> >>

\* the last call on w was a SpawnPlayer
LastSpawn == sim.last # <<>> /\ sim.last[2][1] = "SpawnPlayer"

\* C16: every SpawnPlayer(name) call returns an id that was not in the world
\* before the call and is in it afterwards, with a Player entity named
\* Some(name) at (10,10); every entity that was in the world before the call
\* is unchanged.
C16_SpawnAddsFreshPlayer ==
    LastSpawn =>
        /\ ~sim.panicked
        /\ sim.ev # <<>>
        /\ LET id == sim.ev[1][2]
           IN /\ sim.ev = << <<"PlayerSpawned", id>> >>
              /\ id \notin DOMAIN sim.prev.entities
              /\ id \in DOMAIN sim.w.entities
              /\ sim.w.entities[id] = Entity(Point(10, 10), Some(sim.last[2][2]), "Player")
              /\ \A e \in DOMAIN sim.prev.entities :
                   e \in DOMAIN sim.w.entities /\ sim.w.entities[e] = sim.prev.entities[e]

\* C17: ids are allocated strictly increasingly and never twice: every
\* allocation succeeds, and each id allocated in a run is greater, as a u32,
\* than every id allocated before it in the run.
C17_IdsStrictlyIncrease ==
    /\ LastSpawn => ~sim.panicked
    /\ \A i, j \in DOMAIN sim.ids : i < j => u32_lt(sim.ids[i], sim.ids[j])

\* the last call on w was a SpawnAs or a SaveWorld
LastSpawnAsOrSave == sim.last # <<>> /\ sim.last[2][1] \in {"SpawnAs", "SaveWorld"}

\* C18: apply with SpawnAs(id) or SaveWorld leaves the world unchanged
\* (entity map, generator counter, world name), writes no file, and returns
\* exactly one event: SpawnAsRequested{id}, whether or not id has an entity,
\* or SaveRequested.
C18_SpawnAsAndSaveOnlyReport ==
    LastSpawnAsOrSave =>
        /\ ~sim.panicked
        /\ sim.w.entities = sim.prev.entities
        /\ sim.w.entity_gen = sim.prev.entity_gen
        /\ sim.w.world_name = sim.prev.world_name
        /\ disk = EmptyMap
        /\ sim.ev = IF sim.last[2][1] = "SpawnAs"
                    THEN << <<"SpawnAsRequested", sim.last[2][2]>> >>
                    ELSE << <<"SaveRequested">> >>

\* SpawnAs of an id without entity has been applied to a world that earlier
\* calls had changed
C18_Witness ==
    /\ LastSpawnAsOrSave
    /\ sim.steps >= 2
    /\ sim.prev # sim.start
    /\ sim.last[2] = <<"SpawnAs", 99>>
    /\ 99 \notin DOMAIN sim.w.entities
    /\ sim.ev = << <<"SpawnAsRequested", 99>> >>

\* the server states over world g in which pid has no FOV record or has one;
\* the visible set of the record is left open (empty, or the player's own
\* cell), the claim being about any record
ServerStatesFor(g, pid) ==
    {ServerState_new(g)}
    \cup {[ServerState_new(g) EXCEPT !.player_fovs =
              (pid :> [fov_radius |-> DEFAULT_FOV_RADIUS, current_fov |-> cf])] :
          cf \in {{}, {<<g.entities[pid].position.x, g.entities[pid].position.y>>}}}

\* C2: for a player id with an entity and a FOV record, entities_for_player
\* returns, and returns exactly the entities in the visible set or in the
\* margin box |ex - px| <= fov_radius + margin, |ey - py| <= fov_radius +
\* margin: an entity outside both is absent, an entity in the box is present
\* even when it is not visible; for every world apply can produce, the
\* coordinates being any i32 values.
C2_FovOrBoxExactly ==
    \A pid \in DOMAIN sim.w.entities : \A self \in ServerStatesFor(sim.w, pid) :
        pid \in DOMAIN self.player_fovs =>
            /\ ~entities_for_player_panics(self, pid, sim.build)
            /\ LET fb == FovOrBox(self, pid)
                   got == entities_for_player(self, pid)
               IN /\ got = Restrict(sim.w.entities, fb.visible \cup fb.box)
                  /\ \A e \in DOMAIN sim.w.entities :
                       /\ (e \notin fb.visible /\ e \notin fb.box) => e \notin DOMAIN got
                       /\ e \in fb.box => e \in DOMAIN got /\ got[e] = sim.w.entities[e]

\* C19: for every id that has an entity, entities_for_player(id) returns a
\* map that holds the id's own entity, with or without a FOV record and
\* wherever the entity stands.
C19_OwnEntityIncluded ==
    \A pid \in DOMAIN sim.w.entities : \A self \in ServerStatesFor(sim.w, pid) :
        /\ ~entities_for_player_panics(self, pid, sim.build)
        /\ pid \in DOMAIN entities_for_player(self, pid)
        /\ entities_for_player(self, pid)[pid] = sim.w.entities[pid]

\* payload p is one the server must drop
MustDrop(p) == p.size > MAX_MESSAGE_SIZE \/ p.content[1] \in {"Garbage", "Server"}

\* C20: a stream whose payload is malformed, larger than the 10 MiB ceiling
\* or a ServerMessage is dropped: its handler changes nothing in the server
\* state (world, pending queue, bindings, FOV records, one-off queues), the
\* accept loop of the connection goes on accepting and its tick task is not
\* touched.
C20_BadStreamDropped ==
    \A c \in Conns : MayHandle(c) =>
        \A p \in OtherPayloads : MustDrop(p) =>
            LET r == recv_one_way(p)
                after == handle_stream(state, remote[c], r)
            IN /\ (p.size > MAX_MESSAGE_SIZE \/ p.content[1] = "Garbage") => r[1] = "Err"
               /\ after.game = state.game
               /\ after.event_queue = state.event_queue
               /\ after.endpoints = state.endpoints
               /\ after.player_fovs = state.player_fovs
               /\ after.unique_server_messages = state.unique_server_messages
               /\ acceptLoop[c] = "running" => loop_after_stream_error = "running"
               /\ tickpc[c] \in {"timer", "send"}

\* the handler task of a bad stream is about to run on a connection whose
\* endpoint is bound to a player spawned on it, with the player's FOV record
\* and its PlayerID queued: there is state to keep
C20_Witness ==
    \E c \in Conns :
        /\ acceptLoop[c] = "running"
        /\ tickpc[c] = "timer"
        /\ handlers[c] > 0
        /\ remote[c] \in DOMAIN state.endpoints
        /\ state.endpoints[remote[c]] \in DOMAIN state.game.entities
                                          \ DOMAIN LoadedWorld.entities
        /\ state.endpoints[remote[c]] \in DOMAIN state.player_fovs
        /\ OneOffs(state, remote[c]) # <<>>
        /\ ENABLED RecvOther(c)

-----------------------------------------------------------------------------
(* The server with actions pending: endpoint A bound to player 7 and        *)
(* endpoint B bound to tree 5 or to id 8 by SpawnAs, then up to MaxQueue    *)
(* Move and SaveWorld actions handled, and one tick to go.                  *)

\* the handler tasks of a sequence of streams, one after the other; msgs is
\* a sequence of <<endpoint id, action>>
RECURSIVE handle_all(_, _)
handle_all(self, msgs) ==
    IF msgs = <<>> THEN self
    ELSE handle_all(handle_action(self, msgs[1][1], msgs[1][2]), Tail(msgs))

\* SaveWorld is processed without looking at the entity id it was queued
\* under (net.rs 137-139), so one endpoint sending it is enough
PendingInputs ==
    {<<e, <<"Move", d>>>> : e \in Endpoints, d \in {"Up", "Down"}}
        \cup {<<"A", <<"SaveWorld">>>>}

RECURSIVE SeqsUpTo(_, _)
SeqsUpTo(S, n) ==
    IF n = 0 THEN {<<>>}
    ELSE LET shorter == SeqsUpTo(S, n - 1)
         IN shorter \cup {Append(q, x) : q \in shorter, x \in S}

\* A claims the player 7; B claims the tree 5 or the id 8, which has no entity
Binds(b) == << <<"A", <<"SpawnAs", 7>>>>, <<"B", <<"SpawnAs", b>>>> >>

\* the server over the loaded world with both endpoints bound and a queue
\* of pending actions, one tick before the tick counter's bound; worlds at
\* the i32 limits, where entities_for_player overflows, are those of SpecW
InitT ==
    /\ \E q \in SeqsUpTo(PendingInputs, MaxQueue), b \in SpawnAsIds :
         /\ state = handle_all(ServerState_new(LoadedWorld), Binds(b) \o q)
         /\ nmsgs = Len(Binds(b)) + Len(q)
    /\ enqueued = state.event_queue
    /\ lock = <<>>
    /\ conn = [c \in Conns |-> "open"]
    /\ remote = [c \in Conns |-> IF c = FirstConn THEN "A" ELSE "B"]
    /\ acceptLoop = [c \in Conns |-> "running"]
    /\ tickpc = [c \in Conns |-> "timer"]
    /\ responses = [c \in Conns |-> <<>>]
    /\ disk = EmptyMap
    /\ applied = <<>>
    /\ queuedBy = [e \in Endpoints |-> IF e = "A" THEN <<"k1">> ELSE <<"k2">>]
    /\ sending = [c \in Conns |-> <<>>]
    /\ failed = [c \in Conns |-> FALSE]
    /\ handlers = [c \in Conns |-> 0]
    /\ nticks = MaxTicks - 1
    /\ sim = NoSim
    /\ wire = NoWire
    /\ mock = NoMock
    /\ client = NoClient
    /\ view = NoView

NextT ==
    \/ \E c \in Conns : AcceptFail(c)
    \/ \E c \in Conns : Tick(c)
    \/ \E c \in Conns : TickSendOk(c)
    \/ \E c \in Conns : TickSendErr(c)

SpecT == InitT /\ [][NextT]_vars

\* the world after the Move entries of queue q, in order, and nothing else
RECURSIVE MovesApplied(_, _)
MovesApplied(g, q) ==
    IF q = <<>> THEN g
    ELSE MovesApplied(IF q[1][2][1] = "Move" THEN move_entity(g, q[1][1], q[1][2][2]) ELSE g,
                      Tail(q))

\* C21: a tick that handles queued SaveWorld actions ends the same way
\* whichever of the saves fail: every queued action is handled, the world is
\* the one the queued Moves alone produce (those after a failed save
\* included), the queue is empty, and the tick task goes on to send a list
\* of messages that ends with the snapshot computed from that world;
\* the server state and the messages are those of the tick in which every
\* save succeeds.
C21_SaveFailureStaysInTick ==
    [][\A c \in Conns : TickOf(c) =>
          /\ state'.game = MovesApplied(state.game, state.event_queue)
          /\ applied' = applied \o state.event_queue
          /\ state'.event_queue = <<>>
          /\ tickpc'[c] = "send"
          /\ responses'[c] # <<>>
          /\ responses'[c][Len(responses'[c])] =
                <<"Server", <<"EntityMap", client_update(state', remote[c])>>>>
          /\ LET allOk == [i \in SaveIndices(state.event_queue) |-> <<"ok">>]
                 t == tick_critical(state, disk, remote[c], allOk)
             IN t.self = state' /\ t.responses = responses'[c]]_vars

\* a tick has handled a SaveWorld whose save failed (no file was written)
\* and then a Move queued behind it, which changed the world; its snapshot
\* is ready to be sent
C21_Witness ==
    \E c \in Conns :
        /\ tickpc[c] = "send"
        /\ disk = EmptyMap
        /\ \E i, j \in DOMAIN applied :
              /\ i < j
              /\ applied[i][2] = <<"SaveWorld">>
              /\ applied[j][2][1] = "Move"
              /\ applied[j][1] = 7
        /\ state.game.entities[7] # LoadedWorld.entities[7]
        /\ Snapshot(responses[c])[7] = state.game.entities[7]

\* entity map m2 holds every id of m1, with the type and name it has in m1
KeepsEntities(m1, m2) ==
    \A e \in DOMAIN m1 :
        /\ e \in DOMAIN m2
        /\ m2[e].entity_type = m1[e].entity_type
        /\ m2[e].name = m1[e].name

\* C22: nothing is ever removed: no step takes an entity id out of the world
\* or changes the type or name of an entity, in the server's world and in a
\* world apply is called on; no step removes a FOV record or a binding, the
\* end of a connection included.
C22_NothingRemoved ==
    [][/\ KeepsEntities(state.game.entities, state'.game.entities)
       /\ DOMAIN state.player_fovs \subseteq DOMAIN state'.player_fovs
       /\ DOMAIN state.endpoints \subseteq DOMAIN state'.endpoints
       /\ sim # NoSim => KeepsEntities(sim.w.entities, sim'.w.entities)]_vars

\* the actor ids of the Move entries of queue q
MovedIn(q) == {q[i][1] : i \in {j \in DOMAIN q : q[j][2][1] = "Move"}}

\* the FOV record init_player_fov makes for pid in the loaded world
LoadedFov(pid) ==
    recompute(PlayerFov_new(DEFAULT_FOV_RADIUS), LoadedWorld.entities[pid].position,
              LoadedWorld.entities)

\* C23: after a tick, every entity that exists and for which the tick
\* drained a Move has a FOV record whose visible set is the one recomputed
\* from its position and the entities after all the tick's actions; records
\* of ids for which no Move was drained are as before the tick, and no other
\* record appears.
C23_FovRecomputedForMoved ==
    [][\A c \in Conns : TickOf(c) =>
          LET moved == MovedIn(state.event_queue) \cap DOMAIN state'.game.entities
              after == state'.game.entities
          IN /\ \A pid \in moved :
                   /\ pid \in DOMAIN state'.player_fovs
                   /\ state'.player_fovs[pid].current_fov =
                        recompute(PlayerFov_new(state'.player_fovs[pid].fov_radius),
                                  after[pid].position, after).current_fov
                   /\ pid \in DOMAIN state.player_fovs =>
                        state'.player_fovs[pid].fov_radius = state.player_fovs[pid].fov_radius
             /\ \A pid \in DOMAIN state.player_fovs \ moved :
                   state'.player_fovs[pid] = state.player_fovs[pid]
             /\ DOMAIN state'.player_fovs = DOMAIN state.player_fovs \cup moved]_vars

\* a tick has drained two or more Moves, all of player 7: the record of 7 is
\* no longer the one made when 7 was claimed, that of tree 5 still is
C23_Witness ==
    \E c \in Conns :
        /\ tickpc[c] = "send"
        /\ Len(applied) >= 2
        /\ \A i \in DOMAIN applied : applied[i][1] = 7 /\ applied[i][2][1] = "Move"
        /\ 5 \in DOMAIN state.player_fovs
        /\ state.player_fovs[5] = LoadedFov(5)
        /\ state.player_fovs[7] # LoadedFov(7)
        /\ <<state.game.entities[7].position.x, state.game.entities[7].position.y>>
              \in state.player_fovs[7].current_fov

-----------------------------------------------------------------------------
(* bitcode, as far as derive(Encode, Decode) on the types fixes it: a       *)
(* struct is written as its fields in declaration order, an enum as the     *)
(* index of its variant followed by the variant's fields, a map as its      *)
(* length followed by its entries in the map's iteration order.  A byte     *)
(* string is a sequence of tokens <<kind, v>>, kind being "tag", "len",     *)
(* "u32", "i32" or "str".                                                   *)

Tok(kind, v) == <<kind, v>>

enc_point(p) == << Tok("i32", p.x), Tok("i32", p.y) >>

enc_name(o) == IF o = None THEN << Tok("tag", 0) >> ELSE << Tok("tag", 1), Tok("str", o[1]) >>

enc_entity_type(t) == << Tok("tag", IF t = "Player" THEN 0 ELSE 1) >>

enc_entity(e) == enc_point(e.position) \o enc_name(e.name) \o enc_entity_type(e.entity_type)

RECURSIVE enc_entries(_, _)
enc_entries(m, order) ==
    IF order = <<>> THEN <<>>
    ELSE << Tok("u32", order[1]) >> \o enc_entity(m[order[1]]) \o enc_entries(m, Tail(order))

\* an EntityMap written in the order `order` of its keys
enc_map(m, order) == << Tok("len", Len(order)) >> \o enc_entries(m, order)

DirectionIndex(d) ==
    CASE d = "Up" -> 0 [] d = "Down" -> 1 [] d = "Left" -> 2 [] d = "Right" -> 3

DirectionAt(i) ==
    CASE i = 0 -> "Up" [] i = 1 -> "Down" [] i = 2 -> "Left" [] i = 3 -> "Right"

enc_action(a) ==
    CASE a[1] = "Move" -> << Tok("tag", 0), Tok("tag", DirectionIndex(a[2])) >>
      [] a[1] = "SpawnPlayer" -> << Tok("tag", 1), Tok("str", a[2]) >>
      [] a[1] = "SpawnAs" -> << Tok("tag", 2), Tok("u32", a[2]) >>
      [] a[1] = "SaveWorld" -> << Tok("tag", 3) >>

enc_server(m, order) ==
    CASE m[1] = "EntityMap" -> << Tok("tag", 0) >> \o enc_map(m[2], order)
      [] m[1] = "PlayerID" -> << Tok("tag", 1), Tok("u32", m[2]) >>

enc_message(msg, order) ==
    CASE msg[1] = "Client" -> << Tok("tag", 0) >> \o enc_action(msg[2])
      [] msg[1] = "Server" -> << Tok("tag", 1) >> \o enc_server(msg[2], order)

\* the bytes of what encode_state keeps of a GameState
enc_state(content, order) ==
    << Tok("u32", content[1]) >> \o enc_map(content[2], order) \o << Tok("str", content[3]) >>

\* the orders in which a FxHashMap with key set S can iterate: the order is
\* not specified, it depends on the hasher, the capacity and the insertions
IterationOrders(S) ==
    {f \in [1..Cardinality(S) -> S] : \A i, j \in 1..Cardinality(S) : f[i] = f[j] => i = j}

\* the EntityMap a message carries, if any
MapOf(msg) ==
    IF msg[1] = "Server" /\ msg[2][1] = "EntityMap" THEN msg[2][2] ELSE EmptyMap

\* bitcode::encode(&msg): the byte strings it can return
encode_message(msg) == {enc_message(msg, o) : o \in IterationOrders(DOMAIN MapOf(msg))}

\* bitcode::encode(state) for a GameState
encode_world(gs) == {enc_state(encode_state(gs), o) : o \in IterationOrders(DOMAIN gs.entities)}

\* results of the decoders: failure, or the value and the index after it
Fail == [ok |-> FALSE]
Got(v, i) == [ok |-> TRUE, v |-> v, i |-> i]

dec_tok(b, i, kind) ==
    IF i <= Len(b) /\ b[i][1] = kind THEN Got(b[i][2], i + 1) ELSE Fail

\* the index of a variant of an enum with n variants
dec_tag(b, i, n) ==
    IF i <= Len(b) /\ b[i][1] = "tag" /\ b[i][2] < n THEN Got(b[i][2], i + 1) ELSE Fail

dec_point(b, i) ==
    LET x == dec_tok(b, i, "i32")
    IN IF ~x.ok THEN Fail
       ELSE LET y == dec_tok(b, x.i, "i32")
            IN IF ~y.ok THEN Fail ELSE Got(Point(x.v, y.v), y.i)

dec_name(b, i) ==
    LET t == dec_tag(b, i, 2)
    IN IF ~t.ok THEN Fail
       ELSE IF t.v = 0 THEN Got(None, t.i)
       ELSE LET n == dec_tok(b, t.i, "str")
            IN IF ~n.ok THEN Fail ELSE Got(Some(n.v), n.i)

dec_entity_type(b, i) ==
    LET t == dec_tag(b, i, 2)
    IN IF ~t.ok THEN Fail ELSE Got(IF t.v = 0 THEN "Player" ELSE "Tree", t.i)

dec_entity(b, i) ==
    LET pos == dec_point(b, i)
    IN IF ~pos.ok THEN Fail
       ELSE LET name == dec_name(b, pos.i)
            IN IF ~name.ok THEN Fail
               ELSE LET type == dec_entity_type(b, name.i)
                    IN IF ~type.ok THEN Fail
                       ELSE Got(Entity(pos.v, name.v, type.v), type.i)

\* n entries inserted one after the other into acc
RECURSIVE dec_entries(_, _, _, _)
dec_entries(b, i, n, acc) ==
    IF n = 0 THEN Got(acc, i)
    ELSE LET k == dec_tok(b, i, "u32")
         IN IF ~k.ok THEN Fail
            ELSE LET e == dec_entity(b, k.i)
                 IN IF ~e.ok THEN Fail
                    ELSE dec_entries(b, e.i, n - 1, MapInsert(acc, k.v, e.v))

dec_map(b, i) ==
    LET n == dec_tok(b, i, "len")
    IN IF ~n.ok THEN Fail ELSE dec_entries(b, n.i, n.v, EmptyMap)

dec_action(b, i) ==
    LET t == dec_tag(b, i, 4)
    IN IF ~t.ok THEN Fail
       ELSE CASE t.v = 0 ->
                   LET d == dec_tag(b, t.i, 4)
                   IN IF ~d.ok THEN Fail ELSE Got(<<"Move", DirectionAt(d.v)>>, d.i)
              [] t.v = 1 ->
                   LET n == dec_tok(b, t.i, "str")
                   IN IF ~n.ok THEN Fail ELSE Got(<<"SpawnPlayer", n.v>>, n.i)
              [] t.v = 2 ->
                   LET e == dec_tok(b, t.i, "u32")
                   IN IF ~e.ok THEN Fail ELSE Got(<<"SpawnAs", e.v>>, e.i)
              [] t.v = 3 -> Got(<<"SaveWorld">>, t.i)

dec_server(b, i) ==
    LET t == dec_tag(b, i, 2)
    IN IF ~t.ok THEN Fail
       ELSE IF t.v = 0
            THEN LET m == dec_map(b, t.i)
                 IN IF ~m.ok THEN Fail ELSE Got(<<"EntityMap", m.v>>, m.i)
            ELSE LET e == dec_tok(b, t.i, "u32")
                 IN IF ~e.ok THEN Fail ELSE Got(<<"PlayerID", e.v>>, e.i)

dec_message(b, i) ==
    LET t == dec_tag(b, i, 2)
    IN IF ~t.ok THEN Fail
       ELSE IF t.v = 0
            THEN LET a == dec_action(b, t.i)
                 IN IF ~a.ok THEN Fail ELSE Got(<<"Client", a.v>>, a.i)
            ELSE LET m == dec_server(b, t.i)
                 IN IF ~m.ok THEN Fail ELSE Got(<<"Server", m.v>>, m.i)

dec_state(b, i) ==
    LET g == dec_tok(b, i, "u32")
    IN IF ~g.ok THEN Fail
       ELSE LET m == dec_map(b, g.i)
            IN IF ~m.ok THEN Fail
               ELSE LET n == dec_tok(b, m.i, "str")
                    IN IF ~n.ok THEN Fail
                       ELSE Got([entity_gen |-> g.v, entities |-> m.v, world_name |-> n.v],
                                n.i)

\* bitcode::decode::<Message>(&bytes): every byte must be used
decode_message(b) ==
    LET r == dec_message(b, 1)
    IN IF r.ok /\ r.i = Len(b) + 1 THEN <<"Ok", r.v>> ELSE <<"Err", "Decode">>

\* bitcode::decode::<GameState>(&bytes)
decode_world(b) ==
    LET r == dec_state(b, 1)
    IN IF r.ok /\ r.i = Len(b) + 1 THEN <<"Ok", r.v>> ELSE <<"Err", "InvalidData">>

\* load_from_file: file is <<>> (no such file) or <<bytes>>; readable = the
\* file can be read
load_from_file(file, readable) ==
    IF file = <<>> \/ ~readable THEN <<"Err", "Io">> ELSE decode_world(file[1])

-----------------------------------------------------------------------------
(* The encoding on its own.  wire is a record:                              *)
(*   what       "message" (send_one_way / recv_one_way) or "world"          *)
(*              (save_to_file / load_from_file)                             *)
(*   from       "value": the run starts from a value that is encoded;       *)
(*              "bytes": it starts from a byte string made elsewhere        *)
(*   malformed  for a run from bytes: the bytes are a truncated encoding,   *)
(*              an encoding with a byte too many, or name no variant        *)
(*   value      the value encoded, <<>> in a run from bytes                 *)
(*   bytes      <<>> (no file, nothing sent) or <<b>>                       *)
(*   save       how save_to_file ended, <<>> when it was not called         *)
(*   readable   the file could be read by load_from_file                    *)
(*   decoded    the result of decoding, <<>> before                         *)
(*   again      <<>> or <<b>>, b the decoded value encoded again            *)
(*   phase      "value", "bytes", "decoded", "again"                        *)

WireMessages ==
    {<<"Client", <<"Move", d>>>> : d \in Directions}
    \cup {<<"Client", <<"SpawnPlayer", n>>>> : n \in {"", "Al"}}
    \cup {<<"Client", <<"SpawnAs", i>>>> : i \in {0, U32_MAX}}
    \cup {<<"Client", <<"SaveWorld">>>>}
    \cup {<<"Server", <<"PlayerID", i>>>> : i \in {42, U32_MAX}}
    \cup {<<"Server", <<"EntityMap", m>>>> :
            m \in {EmptyMap, (3 :> Entity(Point(0, 0), Some(""), "Player")),
                   EdgeWorld.entities}}

\* empty_state() of the tests
EmptyWorld == [entity_gen |-> 0, entities |-> EmptyMap, world_name |-> "test"]

WireWorlds ==
    {EmptyWorld, EdgeWorld,
     [entity_gen |-> 2, entities |-> [i \in 1..2 |-> create_test_world("t").entities[i]],
      world_name |-> "t"]}

\* byte strings that are not an encoding: an encoding without its last
\* byte, with a byte too many, nothing at all, or a variant index too high
Damaged(good) ==
    {SubSeq(b, 1, Len(b) - 1) : b \in good}
    \cup {b \o << Tok("tag", 0) >> : b \in good}
    \cup {<<>>, << Tok("tag", 9) >>}

\* an EntityMap message that lists the id 1 twice
TwiceListed ==
    << Tok("tag", 1), Tok("tag", 0), Tok("len", 2),
       Tok("u32", 1) >> \o enc_entity(Entity(Point(5, 5), None, "Tree"))
    \o << Tok("u32", 1) >> \o enc_entity(Entity(Point(6, 5), None, "Tree"))

WireStart(what, from, malformed, value, bytes) ==
    [what |-> what, from |-> from, malformed |-> malformed, value |-> value,
     bytes |-> bytes, save |-> <<>>, readable |-> TRUE, decoded |-> <<>>,
     again |-> <<>>, phase |-> from]

InitC ==
    /\ state = ServerState_new(LoadedWorld)
    /\ lock = <<>>
    /\ conn = [c \in Conns |-> "none"]
    /\ remote = [c \in Conns |-> "-"]
    /\ acceptLoop = [c \in Conns |-> "none"]
    /\ tickpc = [c \in Conns |-> "none"]
    /\ responses = [c \in Conns |-> <<>>]
    /\ disk = EmptyMap
    /\ applied = <<>>
    /\ enqueued = <<>>
    /\ queuedBy = [e \in Endpoints |-> <<>>]
    /\ sending = [c \in Conns |-> <<>>]
    /\ failed = [c \in Conns |-> FALSE]
    /\ handlers = [c \in Conns |-> 0]
    /\ nmsgs = 0
    /\ nticks = 0
    /\ sim = NoSim
    /\ mock = NoMock
    /\ client = NoClient
    /\ view = NoView
    /\ \/ \E v \in WireMessages : wire = WireStart("message", "value", FALSE, v, <<>>)
       \/ \E v \in WireWorlds : wire = WireStart("world", "value", FALSE, v, <<>>)
       \/ \E b \in Damaged(UNION {encode_message(v) : v \in WireMessages}) :
            wire = WireStart("message", "bytes", TRUE, <<>>, <<b>>)
       \/ \E b \in Damaged(UNION {encode_world(v) : v \in WireWorlds}) :
            wire = WireStart("world", "bytes", TRUE, <<>>, <<b>>)
       \/ wire = WireStart("message", "bytes", FALSE, <<>>, <<TwiceListed>>)

\* send_one_way: bitcode::encode(msg), written to the stream
EncodeC ==
    /\ wire.what = "message" /\ wire.phase = "value"
    /\ \E b \in encode_message(wire.value) :
         wire' = [wire EXCEPT !.bytes = <<b>>, !.phase = "bytes"]
    /\ UNCHANGED <<netvars, sim, mock, client, view>>

\* the outcomes of save_to_file: as SaveOutcomes, with every number of
\* bytes that a failing fs::write can leave in the file
WireSaveOutcomes ==
    {<<"ok">>, <<"unopened">>}
    \cup UNION {{<<"cut", k>> : k \in 0..(Len(b) - 1)} :
                  b \in UNION {encode_world(v) : v \in WireWorlds}}

\* save_to_file where no file exists yet, ending with outcome o
SaveC(o) ==
    /\ wire.what = "world" /\ wire.phase = "value"
    /\ \E b \in encode_world(wire.value) :
         /\ o[1] = "cut" => o[2] < Len(b)
         /\ wire' = [wire EXCEPT !.bytes = CASE o[1] = "ok" -> <<b>>
                                             [] o[1] = "unopened" -> <<>>
                                             [] o[1] = "cut" -> <<SubSeq(b, 1, o[2])>>,
                                  !.save = o,
                                  !.phase = "bytes"]
    /\ UNCHANGED <<netvars, sim, mock, client, view>>

\* recv_one_way: the bytes read from the stream, decoded
DecodeC ==
    /\ wire.what = "message" /\ wire.phase = "bytes"
    /\ wire' = [wire EXCEPT !.decoded = decode_message(wire.bytes[1]), !.phase = "decoded"]
    /\ UNCHANGED <<netvars, sim, mock, client, view>>

\* load_from_file
LoadC(readable) ==
    /\ wire.what = "world" /\ wire.phase = "bytes"
    /\ wire' = [wire EXCEPT !.decoded = load_from_file(wire.bytes, readable),
                            !.readable = readable, !.phase = "decoded"]
    /\ UNCHANGED <<netvars, sim, mock, client, view>>

\* the decoded value is encoded again
ReencodeC ==
    /\ wire.phase = "decoded"
    /\ wire.decoded[1] = "Ok"
    /\ \E b \in IF wire.what = "message" THEN encode_message(wire.decoded[2])
                ELSE encode_world(wire.decoded[2]) :
         wire' = [wire EXCEPT !.again = <<b>>, !.phase = "again"]
    /\ UNCHANGED <<netvars, sim, mock, client, view>>

NextC ==
    \/ EncodeC
    \/ \E o \in WireSaveOutcomes : SaveC(o)
    \/ DecodeC
    \/ \E readable \in BOOLEAN : LoadC(readable)
    \/ ReencodeC

SpecC == InitC /\ [][NextC]_vars

\* a world was saved and the file was loaded
SavedAndLoaded ==
    /\ wire.what = "world"
    /\ wire.from = "value"
    /\ wire.phase \in {"decoded", "again"}

\* C24: loading the file a save wrote returns a world equal to the saved
\* one, made of the generator counter, the entity map and the world name and
\* nothing else; loading when the save failed (no file, or a file cut
\* short), when the file cannot be read, or when its bytes are not an
\* encoding returns an error value.
C24_SaveLoadRoundTrip ==
    /\ (SavedAndLoaded /\ wire.save = <<"ok">> /\ wire.readable) =>
          /\ wire.decoded[1] = "Ok"
          /\ DOMAIN wire.decoded[2] = {"entity_gen", "entities", "world_name"}
          /\ wire.decoded[2].entity_gen = wire.value.entity_gen
          /\ wire.decoded[2].entities = wire.value.entities
          /\ wire.decoded[2].world_name = wire.value.world_name
    /\ (SavedAndLoaded /\ (wire.save # <<"ok">> \/ ~wire.readable)) =>
          wire.decoded =
             IF wire.save[1] = "cut" /\ wire.readable
             THEN <<"Err", "InvalidData">> ELSE <<"Err", "Io">>
    /\ (wire.what = "world" /\ wire.from = "bytes" /\ wire.phase = "decoded") =>
          wire.decoded[1] = "Err"

\* the world with ids and coordinates at the limits of u32 and i32 was saved
\* with its entities written in another order than that of their ids, and
\* loaded
C24_Witness ==
    /\ SavedAndLoaded
    /\ wire.value = EdgeWorld
    /\ wire.readable
    /\ wire.save = <<"ok">>
    /\ wire.bytes[1][3] = Tok("u32", 2)
    /\ wire.decoded = <<"Ok", EdgeWorld>>

\* C25: the wire encoding round-trips: a message that was encoded decodes to
\* an equal message, and a byte string that decodes is what the decoded
\* message encodes to.
C25_WireRoundTrip ==
    wire.what = "message" =>
        /\ (wire.from = "value" /\ wire.phase \in {"decoded", "again"}) =>
              wire.decoded = <<"Ok", wire.value>>
        /\ wire.phase = "again" => wire.again = wire.bytes

-----------------------------------------------------------------------------
(* net.rs: MockTransport.  mock is a record:                                *)
(*   chan   the messages in each of the two unbounded channels              *)
(*   alive  per end ("a", "b"): the MockTransport has not been dropped      *)
(*   sent   per end: the messages whose send returned Ok, in order          *)
(*   got    per end: the messages try_recv returned, in order               *)
(*   last   the last call and what it returned, <<>> at the start           *)

Ends == {"a", "b"}

Other(e) == IF e = "a" THEN "b" ELSE "a"

MockMessages == {<<"Client", <<"SaveWorld">>>>, <<"Server", <<"PlayerID", 42>>>>}

mock_transport_pair_looped ==
    [a |-> [tx |-> "ab", rx |-> "ab"], b |-> [tx |-> "ba", rx |-> "ba"]]

\* mock_transport_pair: the channel each end sends into and receives from
mock_transport_pair ==
    [a |-> [tx |-> "ab", rx |-> "ba"], b |-> [tx |-> "ba", rx |-> "ab"]]

\* the end that holds the receiver of channel ch
ReceiverOf(ch) == CHOOSE e \in Ends : mock_transport_pair[e].rx = ch

InitM ==
    /\ state = ServerState_new(LoadedWorld)
    /\ lock = <<>>
    /\ conn = [c \in Conns |-> "none"]
    /\ remote = [c \in Conns |-> "-"]
    /\ acceptLoop = [c \in Conns |-> "none"]
    /\ tickpc = [c \in Conns |-> "none"]
    /\ responses = [c \in Conns |-> <<>>]
    /\ disk = EmptyMap
    /\ applied = <<>>
    /\ enqueued = <<>>
    /\ queuedBy = [e \in Endpoints |-> <<>>]
    /\ sending = [c \in Conns |-> <<>>]
    /\ failed = [c \in Conns |-> FALSE]
    /\ handlers = [c \in Conns |-> 0]
    /\ nmsgs = 0
    /\ nticks = 0
    /\ sim = NoSim
    /\ wire = NoWire
    /\ client = NoClient
    /\ view = NoView
    /\ mock = [chan |-> [ch \in {"ab", "ba"} |-> <<>>],
               alive |-> [e \in Ends |-> TRUE],
               sent |-> [e \in Ends |-> <<>>],
               got |-> [e \in Ends |-> <<>>],
               last |-> <<>>]

\* MockTransport::send on end e: Err when the receiver of the channel is gone
MockSend(e, msg) ==
    /\ mock.alive[e]
    /\ Len(mock.sent["a"]) + Len(mock.sent["b"]) < MaxSends
    /\ LET ch == mock_transport_pair[e].tx
       IN mock' = IF mock.alive[ReceiverOf(ch)]
                  THEN [mock EXCEPT !.chan[ch] = Append(@, msg),
                                    !.sent[e] = Append(@, msg),
                                    !.last = <<"send", e, "Ok">>]
                  ELSE [mock EXCEPT !.last = <<"send", e, "Err">>]
    /\ UNCHANGED <<netvars, sim, wire, client, view>>

\* MockTransport::try_recv on end e: rx.try_recv().ok()
MockTryRecv(e) ==
    /\ mock.alive[e]
    /\ LET ch == mock_transport_pair[e].rx
       IN mock' = IF mock.chan[ch] # <<>>
                  THEN [mock EXCEPT !.chan[ch] = Tail(@),
                                    !.got[e] = Append(@, Head(mock.chan[ch])),
                                    !.last = <<"try_recv", e, Some(Head(mock.chan[ch]))>>]
                  ELSE [mock EXCEPT !.last = <<"try_recv", e, None>>]
    /\ UNCHANGED <<netvars, sim, wire, client, view>>

\* end e is dropped: its receiver goes, with the messages not yet received
MockDrop(e) ==
    /\ mock.alive[e]
    /\ mock' = [mock EXCEPT !.alive[e] = FALSE,
                            !.chan[mock_transport_pair[e].rx] = <<>>,
                            !.last = <<"drop", e>>]
    /\ UNCHANGED <<netvars, sim, wire, client, view>>

NextM ==
    \/ \E e \in Ends, msg \in MockMessages : MockSend(e, msg)
    \/ \E e \in Ends : MockTryRecv(e)
    \/ \E e \in Ends : MockDrop(e)

SpecM == InitM /\ [][NextM]_vars

IsPrefix(p, q) == Len(p) <= Len(q) /\ SubSeq(q, 1, Len(p)) = p

\* the messages sent on end e that try_recv on the other end has yet to return
Pending(e) == SubSeq(mock.sent[e], Len(mock.got[Other(e)]) + 1, Len(mock.sent[e]))

\* the step is a try_recv on end e
IsTryRecv(e) == mock'.last # <<>> /\ mock'.last[1] = "try_recv" /\ mock'.last[2] = e

\* C26: on a pair of mock transports, what try_recv has returned on one end
\* is, in order and without repetition, the messages sent on the other end
\* up to some point; a try_recv returns the oldest message sent on the other
\* end that has not been returned yet, never a message of its own end, and
\* returns None at once, changing nothing, when there is none.
C26_MockPairDelivers ==
    /\ [](\A e \in Ends : IsPrefix(mock.got[Other(e)], mock.sent[e]))
    /\ [][\A e \in Ends : (IsTryRecv(e) /\ mock' # mock) =>
             /\ mock.alive[e]
             /\ mock'.sent = mock.sent
             /\ mock'.got[Other(e)] = mock.got[Other(e)]
             /\ IF Pending(Other(e)) # <<>>
                THEN /\ mock'.last[3] = Some(Head(Pending(Other(e))))
                     /\ mock'.got[e] = Append(mock.got[e], Head(Pending(Other(e))))
                ELSE /\ mock'.last[3] = None
                     /\ mock'.got[e] = mock.got[e]
                     /\ mock'.chan = mock.chan]_vars

\* both ends have sent; b has received the two different messages a sent,
\* in order, and its next try_recv returned None, while the message b sent
\* waits for a
C26_Witness ==
    /\ Len(mock.sent["a"]) = 2
    /\ mock.sent["a"][1] # mock.sent["a"][2]
    /\ mock.got["b"] = mock.sent["a"]
    /\ Len(mock.sent["b"]) = 1
    /\ mock.got["a"] = <<>>
    /\ mock.last = <<"try_recv", "b", None>>

-----------------------------------------------------------------------------
(* The FOV of one observer on its own.  view is a record:                   *)
(*   g      a world: up to three Trees next to the cell (10,10), the        *)
(*          observer (Player 10) on that cell, and in some runs a second    *)
(*          Player (9) next to it                                           *)
(*   pfov   the observer's PlayerFov                                        *)
(*   last   the direction of the observer's last Move, <<>> before the      *)
(*          first                                                           *)

Observer == 10

Centre == Point(10, 10)

\* the eight cells around the centre, by tree id
Offsets == << <<-1, -1>>, <<0, -1>>, <<1, -1>>, <<-1, 0>>, <<1, 0>>, <<-1, 1>>, <<0, 1>>,
              <<1, 1>> >>

\* the world with Trees on the cells `trees` names and Players as said
FovWorld(trees, bystander) ==
    [entity_gen |-> Observer,
     entities |->
        [i \in trees \cup {Observer} \cup (IF bystander THEN {9} ELSE {}) |->
            IF i = Observer THEN Entity(Centre, Some("Al"), "Player")
            ELSE IF i = 9 THEN Entity(Point(Centre.x, Centre.y + 1), Some("Bob"), "Player")
            ELSE Entity(Point(Centre.x + Offsets[i][1], Centre.y + Offsets[i][2]),
                        None, "Tree")],
     world_name |-> "f"]

InitF ==
    /\ state = ServerState_new(LoadedWorld)
    /\ lock = <<>>
    /\ conn = [c \in Conns |-> "none"]
    /\ remote = [c \in Conns |-> "-"]
    /\ acceptLoop = [c \in Conns |-> "none"]
    /\ tickpc = [c \in Conns |-> "none"]
    /\ responses = [c \in Conns |-> <<>>]
    /\ disk = EmptyMap
    /\ applied = <<>>
    /\ enqueued = <<>>
    /\ queuedBy = [e \in Endpoints |-> <<>>]
    /\ sending = [c \in Conns |-> <<>>]
    /\ failed = [c \in Conns |-> FALSE]
    /\ handlers = [c \in Conns |-> 0]
    /\ nmsgs = 0
    /\ nticks = 0
    /\ sim = NoSim
    /\ wire = NoWire
    /\ mock = NoMock
    /\ client = NoClient
    /\ \E trees \in {t \in SUBSET (1..8) : Cardinality(t) <= 3}, bystander \in BOOLEAN :
         LET g == FovWorld(trees, bystander)
         IN view = [g |-> g,
                    pfov |-> recompute(PlayerFov_new(DEFAULT_FOV_RADIUS),
                                       g.entities[Observer].position, g.entities),
                    last |-> <<>>]

\* process_events with one queued Move(d) of the observer, the observer
\* staying near the centre: apply(&mut g, observer, Move(d)), then
\* pfov.recompute(origin, &g.entities) for the moved player
FovMove(d) ==
    /\ LET after == move_entity(view.g, Observer, d)
           pos == after.entities[Observer].position
       IN /\ Abs(pos.x - Centre.x) <= MaxDrift
          /\ Abs(pos.y - Centre.y) <= MaxDrift
          /\ view' = [g |-> after,
                      pfov |-> recompute(view.pfov, pos, after.entities),
                      last |-> <<d>>]
    /\ UNCHANGED <<netvars, sim, wire, mock, client>>

\* init_player_fov(observer), as the handler of SpawnAs(observer) calls it:
\* a new record, recomputed, replaces the old one
FovInit ==
    /\ view' = [view EXCEPT
                  !.pfov = recompute(PlayerFov_new(DEFAULT_FOV_RADIUS),
                                     view.g.entities[Observer].position,
                                     view.g.entities)]
    /\ UNCHANGED <<netvars, sim, wire, mock, client>>

NextF ==
    \/ \E d \in Directions : FovMove(d)
    \/ FovInit

SpecF == InitF /\ [][NextF]_vars

\* the Trees of an entity map, and nothing else
TreesOnly(m) == [i \in {j \in DOMAIN m : m[j].entity_type = "Tree"} |-> m[i]]

\* the reflections and rotations of the grid that keep a cell in place
Symmetries == {"flipx", "flipy", "swap", "rot180", "rot90", "rot270", "antiswap"}

Transform(t, d) ==
    CASE t = "flipx" -> <<-d[1], d[2]>>
      [] t = "flipy" -> <<d[1], -d[2]>>
      [] t = "swap" -> <<d[2], d[1]>>
      [] t = "rot180" -> <<-d[1], -d[2]>>
      [] t = "rot90" -> <<-d[2], d[1]>>
      [] t = "rot270" -> <<d[2], -d[1]>>
      [] t = "antiswap" -> <<-d[2], -d[1]>>

\* the image of a set of cells under t around the cell o
Image(t, o, cells) ==
    {<<o.x + Transform(t, <<c[1] - o.x, c[2] - o.y>>)[1],
       o.y + Transform(t, <<c[1] - o.x, c[2] - o.y>>)[2]>> : c \in cells}

TreeCells(m) ==
    {<<m[i].position.x, m[i].position.y>> : i \in {j \in DOMAIN m : m[j].entity_type = "Tree"}}

\* C27: the visible set of a record is always the one a new record gets
\* from the entity's position, the radius and the Trees alone, whatever the
\* record held before and wherever the observer was before; it holds the
\* origin cell; and when the Tree cells are mapped onto themselves by a
\* reflection or rotation around the origin, so is the visible set.
C27_FovDeterministicSymmetric ==
    (view # NoView) =>
        LET o == view.g.entities[Observer].position
            vis == view.pfov.current_fov
        IN /\ vis = recompute(PlayerFov_new(view.pfov.fov_radius), o,
                              TreesOnly(view.g.entities)).current_fov
           /\ <<o.x, o.y>> \in vis
           /\ \A t \in Symmetries :
                Image(t, o, TreeCells(view.g.entities)) = TreeCells(view.g.entities)
                    => Image(t, o, vis) = vis

\* the observer is back on the centre after a walk, between two Trees left
\* and right of it and with a Player below it: the cells behind the Trees
\* are not visible, the cell behind the Player is, and the set is its own
\* mirror image
C27_Witness ==
    /\ view.last # <<>>
    /\ view.g.entities[Observer].position = Centre
    /\ TreeCells(view.g.entities) = {<<9, 10>>, <<11, 10>>}
    /\ 9 \in DOMAIN view.g.entities
    /\ <<8, 10>> \notin view.pfov.current_fov
    /\ <<12, 10>> \notin view.pfov.current_fov
    /\ <<10, 12>> \in view.pfov.current_fov
    /\ Image("flipx", Centre, view.pfov.current_fov) = view.pfov.current_fov

-----------------------------------------------------------------------------
\* C28: the snapshot of a tick is taken in the step that takes the free
\* guard, drains the queue, applies the actions and recomputes the FOV
\* records, and after them: every entity in it is as the world has it once
\* all the actions that were queued are applied; for a connection bound to
\* an entity with a FOV record it holds exactly the entities that the
\* record as recomputed in this tick, or the box around the entity's new
\* position, admits; and no action is received, queued or applied by
\* another task within the step.
C28_SnapshotAfterApply ==
    [][\A c \in Conns : TickOf(c) =>
          LET after == MovesApplied(state.game, state.event_queue).entities
              snap == Snapshot(responses'[c])
              rid == remote[c]
              moved == MovedIn(state.event_queue)
          IN /\ lock = <<>>
             /\ state'.event_queue = <<>>
             /\ enqueued' = enqueued
             /\ nmsgs' = nmsgs
             /\ applied' = applied \o state.event_queue
             /\ \A e \in DOMAIN snap : e \in DOMAIN after /\ snap[e] = after[e]
             /\ IF rid \in DOMAIN state.endpoints
                   /\ state.endpoints[rid] \in DOMAIN after
                   /\ state.endpoints[rid] \in DOMAIN state.player_fovs \cup moved
                THEN LET pid == state.endpoints[rid]
                         old == IF pid \in DOMAIN state.player_fovs
                                THEN state.player_fovs[pid]
                                ELSE PlayerFov_new(DEFAULT_FOV_RADIUS)
                         pfov == IF pid \in moved
                                 THEN recompute(old, after[pid].position, after)
                                 ELSE old
                     IN DOMAIN snap =
                          {e \in DOMAIN after :
                              \/ in_fov(pfov, after[e])
                              \/ in_margin(pfov, after[pid], after[e])}
                ELSE rid \notin DOMAIN state.endpoints => snap = after]_vars

\* a tick of the connection of player 7 has applied two or more Moves of 7:
\* its snapshot shows 7 where the Moves left it and no longer holds every
\* entity that a snapshot taken before the Moves would have held
C28_Witness ==
    \E c \in Conns :
        /\ tickpc[c] = "send"
        /\ remote[c] = "A"
        /\ Len(applied) >= 2
        /\ \A i \in DOMAIN applied : applied[i][1] = 7 /\ applied[i][2][1] = "Move"
        /\ Snapshot(responses[c])[7] = state.game.entities[7]
        /\ state.game.entities[7] # LoadedWorld.entities[7]
        /\ DOMAIN Snapshot(responses[c]) #
              DOMAIN client_update(handle_all(ServerState_new(LoadedWorld),
                                              Binds(state.endpoints["B"])), "A")

-----------------------------------------------------------------------------
(* Two Moves of one actor, applied in both orders.  Here sim is a record:   *)
(*   w      the world the Moves are applied to as d1 then d2                *)
(*   twin   the world they are applied to as d2 then d1                     *)
(*   prev   both worlds before the pair                                     *)
(*   last   <<actor id, d1, d2>> of the pair under way or done              *)
(*   phase  "first": no Move of a pair is applied, "second": one is         *)
(*   steps  the number of pairs begun                                       *)

InitR ==
    /\ state = ServerState_new(LoadedWorld)
    /\ lock = <<>>
    /\ conn = [c \in Conns |-> "none"]
    /\ remote = [c \in Conns |-> "-"]
    /\ acceptLoop = [c \in Conns |-> "none"]
    /\ tickpc = [c \in Conns |-> "none"]
    /\ responses = [c \in Conns |-> <<>>]
    /\ disk = EmptyMap
    /\ applied = <<>>
    /\ enqueued = <<>>
    /\ queuedBy = [e \in Endpoints |-> <<>>]
    /\ sending = [c \in Conns |-> <<>>]
    /\ failed = [c \in Conns |-> FALSE]
    /\ handlers = [c \in Conns |-> 0]
    /\ nmsgs = 0
    /\ nticks = 0
    /\ \E g \in Worlds :
         sim = [w |-> g, twin |-> g, prev |-> g, last |-> <<>>, phase |-> "first",
                steps |-> 0]
    /\ wire = NoWire
    /\ mock = NoMock
    /\ client = NoClient
    /\ view = NoView

\* apply(&mut w, eid, &Move(d1)) and apply(&mut twin, eid, &Move(d2))
MoveFirst(eid, d1, d2) ==
    /\ sim.phase = "first"
    /\ sim.w = sim.twin
    /\ sim.steps < MaxSteps
    /\ sim' = [sim EXCEPT !.w = apply(sim.w, eid, <<"Move", d1>>),
                          !.twin = apply(sim.twin, eid, <<"Move", d2>>),
                          !.prev = sim.w,
                          !.last = <<eid, d1, d2>>,
                          !.phase = "second",
                          !.steps = @ + 1]
    /\ UNCHANGED <<netvars, wire, mock, client, view>>

\* apply(&mut w, eid, &Move(d2)) and apply(&mut twin, eid, &Move(d1))
MoveSecond ==
    /\ sim.phase = "second"
    /\ sim' = [sim EXCEPT !.w = apply(sim.w, sim.last[1], <<"Move", sim.last[3]>>),
                          !.twin = apply(sim.twin, sim.last[1], <<"Move", sim.last[2]>>),
                          !.phase = "first"]
    /\ UNCHANGED <<netvars, wire, mock, client, view>>

NextR ==
    \/ \E eid \in {2, 99}, d1, d2 \in Directions : MoveFirst(eid, d1, d2)
    \/ MoveSecond

SpecR == InitR /\ [][NextR]_vars

\* both orders of a pair of Moves have been applied
PairDone == sim.phase = "first" /\ sim.last # <<>>

\* a Move in direction d leaves position p as it is: p is on the i32 bound
\* that d points at
AtBound(p, d) ==
    \/ d = "Right" /\ p.x = I32_MAX
    \/ d = "Left" /\ p.x = I32_MIN
    \/ d = "Down" /\ p.y = I32_MAX
    \/ d = "Up" /\ p.y = I32_MIN

Opposite(d1, d2) == {d1, d2} \in {{"Left", "Right"}, {"Up", "Down"}}

\* the pair is of opposite directions and the actor's entity stood on the
\* bound that one of them points at
OpposedAtBound ==
    /\ sim.last[1] \in DOMAIN sim.prev.entities
    /\ Opposite(sim.last[2], sim.last[3])
    /\ \/ AtBound(sim.prev.entities[sim.last[1]].position, sim.last[2])
       \/ AtBound(sim.prev.entities[sim.last[1]].position, sim.last[3])

\* C29 as stated: two Moves of the same actor yield the same world in
\* either order.
C29_MovesCommute == PairDone => sim.w = sim.twin

\* C29: two Moves of the same actor yield the same world in either order,
\* except when they are of opposite directions and the entity stands on the
\* i32 bound that one of them points at: there the Move towards the bound
\* changes nothing when it comes first, and the two orders leave the entity
\* one cell apart.
C29_MovesCommuteOffBounds == PairDone => (sim.w = sim.twin <=> ~OpposedAtBound)

\* Right and Down of the player on the corner (I32_MAX, I32_MIN), of which
\* Right changes nothing, have been applied in both orders with one result
C29_Witness ==
    /\ PairDone
    /\ sim.last = <<2, "Right", "Down">>
    /\ sim.prev = EdgeWorld
    /\ sim.w = sim.twin
    /\ sim.w.entities[2].position = Point(I32_MAX, I32_MIN + 1)

-----------------------------------------------------------------------------
(* app.rs: TemplateApp::update, the two polls of the channel from the       *)
(* client's receive loop.  client is a record:                              *)
(*   entities   self.game.entities, the local view                          *)
(*   player_id  self.player_id                                              *)
(*   rx         the messages in server_to_client_rx, oldest first           *)
(*   screen     self.screen                                                 *)
(*   pc         "network": update is in its first poll (or about to be      *)
(*              called), "playing": it is in the poll of the Playing screen *)
(*   forwarded  the number of messages the receive loop has forwarded       *)
(*   handled    the number of messages the polls have taken                 *)

\* the messages the receive loop may forward, by number
Forwarded ==
    << <<"Server", <<"PlayerID", 7>>>>,
       <<"Server", <<"EntityMap", 1 :> Entity(Point(6, 5), None, "Tree")
                                  @@ 7 :> Entity(Point(10, 10), Some("Al"), "Player")>>>>,
       <<"Server", <<"EntityMap", 7 :> Entity(Point(10, 11), Some("Al"), "Player")>>>>,
       <<"Server", <<"EntityMap", EmptyMap>>>>,
       <<"Client", <<"SaveWorld">>>> >>

\* `for (eid, e) in emap.iter() { self.game.entities.insert(*eid, e.clone()); }`
insert_all(entities, emap) ==
    [i \in DOMAIN entities \cup DOMAIN emap |->
        IF i \in DOMAIN emap THEN emap[i] ELSE entities[i]]

\* the body of the first `while let Ok(msg) = rx.try_recv()`
poll_network(c, msg) ==
    IF msg[1] = "Server"
    THEN CASE msg[2][1] = "EntityMap" ->
                 [c EXCEPT !.entities = insert_all(@, msg[2][2])]
           [] msg[2][1] = "PlayerID" -> [c EXCEPT !.player_id = msg[2][2]]
    ELSE c

\* the body of the `while let Ok(smsg) = rx.try_recv()` of AppScreen::Playing
poll_playing(c, msg) ==
    IF msg[1] = "Server" /\ msg[2][1] = "EntityMap"
    THEN [c EXCEPT !.entities = insert_all(@, msg[2][2])]
    ELSE c

\* TemplateApp::default, with the channel start_client makes
InitA ==
    /\ state = ServerState_new(LoadedWorld)
    /\ lock = <<>>
    /\ conn = [c \in Conns |-> "none"]
    /\ remote = [c \in Conns |-> "-"]
    /\ acceptLoop = [c \in Conns |-> "none"]
    /\ tickpc = [c \in Conns |-> "none"]
    /\ responses = [c \in Conns |-> <<>>]
    /\ disk = EmptyMap
    /\ applied = <<>>
    /\ enqueued = <<>>
    /\ queuedBy = [e \in Endpoints |-> <<>>]
    /\ sending = [c \in Conns |-> <<>>]
    /\ failed = [c \in Conns |-> FALSE]
    /\ handlers = [c \in Conns |-> 0]
    /\ nmsgs = 0
    /\ nticks = 0
    /\ sim = NoSim
    /\ wire = NoWire
    /\ mock = NoMock
    /\ view = NoView
    /\ \E screen \in {"Playing", "MainMenu"} :
         client = [entities |-> create_test_world("default").entities,
                   player_id |-> 0,
                   rx |-> <<>>,
                   screen |-> screen,
                   pc |-> "network",
                   forwarded |-> 0,
                   handled |-> 0]

\* run_client_internal, receive loop: `let _ = tx.send(msg)`
Forward(i) ==
    /\ client.forwarded < MaxInbox
    /\ client' = [client EXCEPT !.rx = Append(@, Forwarded[i]), !.forwarded = @ + 1]
    /\ UNCHANGED <<netvars, sim, wire, mock, view>>

\* the first poll takes a message
PollNetworkRecv ==
    /\ client.pc = "network"
    /\ client.rx # <<>>
    /\ client' = [poll_network(client, Head(client.rx)) EXCEPT
                    !.rx = Tail(client.rx), !.handled = @ + 1]
    /\ UNCHANGED <<netvars, sim, wire, mock, view>>

\* the first poll finds the channel empty and `match self.screen` goes to
\* AppScreen::Playing (on another screen update shows a menu and returns,
\* to be called again: nothing of the record changes)
PollNetworkEmpty ==
    /\ client.pc = "network"
    /\ client.rx = <<>>
    /\ client.screen = "Playing"
    /\ client' = [client EXCEPT !.pc = "playing"]
    /\ UNCHANGED <<netvars, sim, wire, mock, view>>

\* the poll of the Playing screen takes a message
PollPlayingRecv ==
    /\ client.pc = "playing"
    /\ client.rx # <<>>
    /\ client' = [poll_playing(client, Head(client.rx)) EXCEPT
                    !.rx = Tail(client.rx), !.handled = @ + 1]
    /\ UNCHANGED <<netvars, sim, wire, mock, view>>

\* the poll of the Playing screen finds the channel empty; update returns
\* after input and rendering and is called again
PollPlayingEmpty ==
    /\ client.pc = "playing"
    /\ client.rx = <<>>
    /\ client' = [client EXCEPT !.pc = "network"]
    /\ UNCHANGED <<netvars, sim, wire, mock, view>>

NextA ==
    \/ \E i \in DOMAIN Forwarded : Forward(i)
    \/ PollNetworkRecv
    \/ PollNetworkEmpty
    \/ PollPlayingRecv
    \/ PollPlayingEmpty

SpecA == InitA /\ [][NextA]_vars

\* the step is a poll of the client taking one message from the channel
TakesMessage == client'.handled = client.handled + 1

\* C30: when the client takes an EntityMap from the channel, its local
\* entity map afterwards maps every id of the snapshot to the snapshot's
\* entity and every other id as before, none removed; when it takes a
\* PlayerID, its player id afterwards is the one received.
C30_ClientMergesAndSetsId ==
    [][TakesMessage =>
          LET msg == Head(client.rx)
          IN msg[1] = "Server" =>
               /\ msg[2][1] = "EntityMap" =>
                    /\ DOMAIN client'.entities = DOMAIN client.entities \cup DOMAIN msg[2][2]
                    /\ \A i \in DOMAIN msg[2][2] : client'.entities[i] = msg[2][2][i]
                    /\ \A i \in DOMAIN client.entities \ DOMAIN msg[2][2] :
                          client'.entities[i] = client.entities[i]
               /\ msg[2][1] = "PlayerID" => client'.player_id = msg[2][2]]_vars

-----------------------------------------------------------------------------
\* C31: every id that has a FOV record has an entity in the world, so for no
\* bound connection does entities_for_player find a FOV record and no
\* entity, the case in which it returns an empty map.
C31_FovRecordHasEntity ==
    /\ DOMAIN state.player_fovs \subseteq DOMAIN state.game.entities
    /\ \A rid \in DOMAIN state.endpoints :
          state.endpoints[rid] \in DOMAIN state.player_fovs
              => entities_for_player(state, state.endpoints[rid]) # EmptyMap

\* one endpoint has claimed an id that has no entity, for which no record
\* was made, and another has a record
C31_Witness ==
    /\ \E rid \in DOMAIN state.endpoints :
          /\ state.endpoints[rid] \notin DOMAIN state.game.entities
          /\ state.endpoints[rid] \notin DOMAIN state.player_fovs
    /\ state.player_fovs # EmptyMap

-----------------------------------------------------------------------------
(* The server with both endpoints bound: endpoint A has claimed player 7,   *)
(* endpoint B tree 5 or the id 8, and the PlayerID messages of the two      *)
(* claims wait for the next ticks.                                          *)

InitB ==
    /\ \E b \in SpawnAsIds : state = handle_all(ServerState_new(LoadedWorld), Binds(b))
    /\ nmsgs = 0
    /\ enqueued = <<>>
    /\ lock = <<>>
    /\ conn = [c \in Conns |-> "open"]
    /\ remote = [c \in Conns |-> IF c = FirstConn THEN "A" ELSE "B"]
    /\ acceptLoop = [c \in Conns |-> "running"]
    /\ tickpc = [c \in Conns |-> "timer"]
    /\ responses = [c \in Conns |-> <<>>]
    /\ disk = EmptyMap
    /\ applied = <<>>
    /\ queuedBy = [e \in Endpoints |-> IF e = "A" THEN <<"k1">> ELSE <<"k2">>]
    /\ sending = [c \in Conns |-> <<>>]
    /\ failed = [c \in Conns |-> FALSE]
    /\ handlers = [c \in Conns |-> 0]
    /\ nticks = 0
    /\ sim = NoSim
    /\ wire = NoWire
    /\ mock = NoMock
    /\ client = NoClient
    /\ view = NoView

NextB ==
    \/ \E c \in Conns : AcceptStream(c)
    \/ \E c \in Conns, a \in GameActions : RecvAction(c, a)
    \/ \E c \in Conns : Tick(c)
    \/ \E c \in Conns : TickSendOk(c)

SpecB == InitB /\ [][NextB]_vars

\* C32: the pending queue holds Move and SaveWorld entries only; an entry
\* is appended by the handler of a message with the entity id that the
\* endpoint of the message's connection is bound to in that step; and a
\* step that binds an endpoint to another id leaves every entry of the
\* queue, tags included, as it is, so that the tick applies the entry with
\* the tag it was queued with.
C32_QueueTaggedAtHandling ==
    /\ [](\A i \in DOMAIN state.event_queue :
             state.event_queue[i][2][1] \in {"Move", "SaveWorld"})
    /\ [][/\ nmsgs' = nmsgs + 1 =>
               \/ state'.event_queue = state.event_queue
               \/ \E c \in Conns :
                     /\ handlers'[c] = handlers[c] - 1
                     /\ remote[c] \in DOMAIN state.endpoints
                     /\ \E a \in GameActions :
                           /\ a[1] \in {"Move", "SaveWorld"}
                           /\ state'.event_queue =
                                Append(state.event_queue,
                                       <<state.endpoints[remote[c]], a>>)
                           /\ state'.endpoints = state.endpoints
          /\ state'.endpoints # state.endpoints => state'.event_queue = state.event_queue
          /\ IsTick => applied' = applied \o state.event_queue]_vars

\* an action is pending with the tag 7 although no endpoint is bound to 7
\* any more: the endpoint that sent it has since claimed another id
C32_Witness ==
    /\ \E i \in DOMAIN state.event_queue : state.event_queue[i][1] = 7
    /\ \A e \in DOMAIN state.endpoints : state.endpoints[e] # 7

-----------------------------------------------------------------------------
(* The test world after very many spawns.  A world with billions of         *)
(* entities is held in two parts; here sim is a record:                     *)
(*   build       "debug" (overflow checks) or "release" (none)              *)
(*   entity_gen  the generator counter, a 32-bit pattern                    *)
(*   keyed       the entities held one by one, by id                        *)
(*   run         <<>> or <<lo, hi>>: the ids lo..hi (in u32 order) all map  *)
(*               to the Player that spawn_player(.., "Al") inserts and that *)
(*               has not moved since                                        *)
(*   panicked    a call has panicked                                        *)
(*   steps       the number of actions taken                                *)

u32_le(a, b) == a = b \/ u32_lt(a, b)

InRun(run, id) == run # <<>> /\ u32_le(run[1], id) /\ u32_le(id, run[2])

\* entities.contains_key(&id)
HasKey(w, id) == id \in DOMAIN w.keyed \/ InRun(w.run, id)

\* spawn_player(&mut w, "Al"): entities.insert(entity_gen.next(), Player)
spawn_player_in(w) ==
    LET id == next_id(w)
        player == Entity(Point(10, 10), Some("Al"), "Player")
        extends == IF w.run = <<>> THEN TRUE
                   ELSE w.run[2] # U32_MAX /\ next_id([entity_gen |-> w.run[2]]) = id
    IN IF id \in DOMAIN w.keyed
       THEN [w EXCEPT !.entity_gen = id, !.keyed = MapInsert(@, id, player)]
       ELSE IF InRun(w.run, id)
       THEN [w EXCEPT !.entity_gen = id]
       ELSE IF extends
       THEN [w EXCEPT !.entity_gen = id,
                      !.run = IF @ = <<>> THEN <<id, id>> ELSE <<@[1], id>>]
       ELSE [w EXCEPT !.entity_gen = id, !.keyed = MapInsert(@, id, player)]

\* spawn_player(&mut w, "Al") called until the counter is t, none of the
\* calls overflowing: every id from the counter + 1 to t is new
spawn_player_until(w, t) ==
    [w EXCEPT !.entity_gen = t,
              !.run = <<IF @ = <<>> THEN next_id(w) ELSE @[1], t>>]

InitG ==
    /\ state = ServerState_new(LoadedWorld)
    /\ lock = <<>>
    /\ conn = [c \in Conns |-> "none"]
    /\ remote = [c \in Conns |-> "-"]
    /\ acceptLoop = [c \in Conns |-> "none"]
    /\ tickpc = [c \in Conns |-> "none"]
    /\ responses = [c \in Conns |-> <<>>]
    /\ disk = EmptyMap
    /\ applied = <<>>
    /\ enqueued = <<>>
    /\ queuedBy = [e \in Endpoints |-> <<>>]
    /\ sending = [c \in Conns |-> <<>>]
    /\ failed = [c \in Conns |-> FALSE]
    /\ handlers = [c \in Conns |-> 0]
    /\ nmsgs = 0
    /\ nticks = 0
    /\ \E b \in Builds :
         sim = [build |-> b,
                entity_gen |-> create_test_world("t").entity_gen,
                keyed |-> create_test_world("t").entities,
                run |-> <<>>,
                panicked |-> FALSE,
                steps |-> 0]
    /\ wire = NoWire
    /\ mock = NoMock
    /\ client = NoClient
    /\ view = NoView

\* apply(&mut w, _, &SpawnPlayer("Al"))
SpawnOne ==
    /\ ~sim.panicked
    /\ sim.steps < MaxSteps
    /\ sim' = IF next_overflows(sim) /\ sim.build = "debug"
              THEN [sim EXCEPT !.panicked = TRUE, !.steps = @ + 1]
              ELSE [spawn_player_in(sim) EXCEPT !.steps = @ + 1]
    /\ UNCHANGED <<netvars, wire, mock, client, view>>

\* apply(&mut w, _, &SpawnPlayer("Al")) again and again until the counter is t
SpawnUntil(t) ==
    /\ ~sim.panicked
    /\ sim.steps < MaxSteps
    /\ u32_lt(sim.entity_gen, t)
    /\ IF sim.run = <<>> THEN TRUE ELSE sim.run[2] = sim.entity_gen
    /\ \A k \in DOMAIN sim.keyed : u32_le(k, sim.entity_gen)
    /\ sim' = [spawn_player_until(sim, t) EXCEPT !.steps = @ + 1]
    /\ UNCHANGED <<netvars, wire, mock, client, view>>

\* apply(&mut w, eid, &Move(d)) for an entity held by id
MoveKeyed(eid, d) ==
    /\ ~sim.panicked
    /\ sim.steps < MaxSteps
    /\ eid \in DOMAIN sim.keyed
    /\ sim' = [sim EXCEPT !.keyed = move_entity([entities |-> @], eid, d).entities,
                          !.steps = @ + 1]
    /\ UNCHANGED <<netvars, wire, mock, client, view>>

NextG ==
    \/ SpawnOne
    \/ \E t \in {8, I32_MAX, U32_MAX} : SpawnUntil(t)
    \/ \E eid \in {1, 2}, d \in Directions : MoveKeyed(eid, d)

SpecG == InitG /\ [][NextG]_vars

\* C33: in every world reached from create_test_world, every entity id is
\* at most the generator counter, the id the next spawn allocates is not a
\* key of the map, and the trees of the test world are still trees: no
\* spawn has overwritten one.
C33_IdsBelowCounter ==
    ~sim.panicked =>
        /\ \A k \in DOMAIN sim.keyed : u32_le(k, sim.entity_gen)
        /\ sim.run # <<>> => u32_le(sim.run[2], sim.entity_gen)
        /\ ~(next_overflows(sim) /\ sim.build = "debug") => ~HasKey(sim, next_id(sim))
        /\ \A k \in DOMAIN create_test_world("t").entities :
              sim.keyed[k].entity_type = "Tree"

-----------------------------------------------------------------------------
\* C34: the PlayerID messages that a tick takes from the queue of its
\* connection's endpoint are put in the send list in the order in which
\* they were queued, before the snapshot, so that the last PlayerID of the
\* list names the entity the endpoint is bound to.
C34_PlayerIdsInQueuedOrder ==
    [][\A c \in Conns : TickOf(c) =>
          LET rid == remote[c]
              queued == IF rid \in DOMAIN state.unique_server_messages
                        THEN state.unique_server_messages[rid] ELSE <<>>
              sent == SubSeq(responses'[c], 1, Len(responses'[c]) - 1)
          IN /\ sent = [i \in 1..Len(queued) |-> <<"Server", queued[i]>>]
             /\ sent # <<>> => sent[Len(sent)][2] = <<"PlayerID", state'.endpoints[rid]>>]_vars

-----------------------------------------------------------------------------
\* the visible set of the FOV record of pid is the one recomputed from the
\* position of pid and the entities as they are now
FovIsCurrent(self, pid) ==
    self.player_fovs[pid].current_fov =
        recompute(PlayerFov_new(self.player_fovs[pid].fov_radius),
                  self.game.entities[pid].position, self.game.entities).current_fov

\* C35: whenever the lock is free, the visible set of every FOV record is
\* the set recomputed from its entity's current position and the current
\* positions of the sight-blocking entities.
C35_NoStaleFov ==
    lock = <<>> =>
        \A pid \in DOMAIN state.player_fovs \cap DOMAIN state.game.entities :
            FovIsCurrent(state, pid)

\* C36: no step changes the position of a Tree, and every Tree of the
\* loaded world is where the loaded world has it.
C36_TreesNeverMove ==
    /\ [](\A e \in DOMAIN LoadedWorld.entities :
             LoadedWorld.entities[e].entity_type = "Tree"
                 => state.game.entities[e] = LoadedWorld.entities[e])
    /\ [][\A e \in DOMAIN state.game.entities :
             state.game.entities[e].entity_type = "Tree"
                 => state'.game.entities[e].position = state.game.entities[e].position]_vars

-----------------------------------------------------------------------------
\* C37: for every two entities of the world, the differences of their x and
\* of their y coordinates and the absolute values of the differences are
\* i32 values, as is fov_radius + margin, so that entities_for_player
\* neither panics nor wraps for any id, with or without overflow checks.
C37_MarginTestInRange ==
    /\ DEFAULT_FOV_RADIUS <= I32_MAX - FOV_NETWORK_MARGIN
    /\ \A pid \in DOMAIN sim.w.entities :
          /\ \A eid \in DOMAIN sim.w.entities :
                /\ ~abs_diff_panics(sim.w.entities[eid].position.x,
                                    sim.w.entities[pid].position.x)
                /\ ~abs_diff_panics(sim.w.entities[eid].position.y,
                                    sim.w.entities[pid].position.y)
          /\ \A self \in ServerStatesFor(sim.w, pid) :
                ~entities_for_player_panics(self, pid, "debug")

-----------------------------------------------------------------------------
\* the file that a successful SaveWorld at place i of queue q writes, the
\* world being g when the tick starts
SavedAt(g, q, i) == encode_state(MovesApplied(g, SubSeq(q, 1, i - 1)))

\* the save_to_file calls of queue q that opened the file, outs giving how
\* each call ended
Opened(outs) == {i \in DOMAIN outs : outs[i][1] # "unopened"}

\* the files after a tick that started with files d, world g and queue q:
\* what the last save_to_file that opened the file left, the world being
\* then as the entries before that SaveWorld made it
FilesAfter(d, g, q, outs) ==
    IF Opened(outs) = {} THEN d
    ELSE LET last == CHOOSE i \in Opened(outs) : \A j \in Opened(outs) : j <= i
         IN save_to_file(d, MovesApplied(g, SubSeq(q, 1, last - 1)), outs[last])

\* C38: a tick applies the drained actions in the order of the queue, and
\* a queued SaveWorld writes the world as it is after the actions queued
\* before it and before those queued after it: after the tick the files
\* are what the last save that opened the file left, and when that save
\* succeeded the file is the encoding of the world after exactly the
\* entries queued before its SaveWorld.
C38_AppliedInQueueOrder ==
    [][\A c \in Conns : TickOf(c) =>
          LET q == state.event_queue
              start == [game |-> state.game, disk |-> disk, moved_players |-> <<>>,
                        handled |-> <<>>]
          IN /\ applied' = applied \o q
             /\ state'.game = MovesApplied(state.game, q)
             /\ \E outs \in [SaveIndices(q) -> SaveOutcomes] :
                   disk' = FilesAfter(disk, state.game, q, outs)
             /\ \A outs \in [SaveIndices(q) -> SaveOutcomes] :
                   process_loop(start, q, 1, outs).disk =
                      FilesAfter(disk, state.game, q, outs)
             /\ \A i \in SaveIndices(q) :
                   FilesAfter(disk, state.game, q,
                              [j \in SaveIndices(q) |->
                                 IF j <= i THEN <<"ok">> ELSE <<"unopened">>])
                      = MapInsert(disk, file_path(state.game),
                                  SavedAt(state.game, q, i))]_vars

\* a tick has applied a Move, a SaveWorld that succeeded and another Move:
\* the file holds a world that is neither the one before the tick nor the
\* one after it
C38_Witness ==
    /\ \E c \in Conns : tickpc[c] = "send"
    /\ Len(applied) = 3
    /\ applied[1][2][1] = "Move" /\ applied[2][2][1] = "SaveWorld" /\ applied[3][2][1] = "Move"
    /\ file_path(state.game) \in DOMAIN disk
    /\ disk[file_path(state.game)] # encode_state(state.game)
    /\ disk[file_path(state.game)] # encode_state(LoadedWorld)
    /\ disk[file_path(state.game)] =
          encode_state(MovesApplied(LoadedWorld, <<applied[1]>>))

-----------------------------------------------------------------------------
(* The server with both endpoints bound, under fair scheduling: the 50 ms   *)
(* interval of every tick task fires again and again, the mutex is handed   *)
(* to every waiter in turn (tokio's Mutex is first come, first served), and *)
(* every send_one_way returns, with Ok or with Err.  Connections may go     *)
(* away at any time.                                                        *)

QueuedActions == {<<"Move", "Up">>, <<"SaveWorld">>}

NextL ==
    \/ \E c \in Conns : AcceptStream(c)
    \/ \E c \in Conns, a \in QueuedActions : RecvAction(c, a)
    \/ \E c \in Conns : AcceptFail(c)
    \/ \E c \in Conns : Tick(c)
    \/ \E c \in Conns : TickSendOk(c)
    \/ \E c \in Conns : TickSendErr(c)

\* the step of a tick task from its timer into the critical section, as far
\* as the task's own position goes: Tick(c) is the one step of NextL that
\* raises nticks and takes tickpc[c] from "timer" to "send", and it can be
\* taken exactly when the guard below holds
TickDue(c) ==
    /\ tickpc[c] = "timer"
    /\ lock = <<>>
    /\ nticks < MaxTicks
    /\ nticks' = nticks + 1
    /\ tickpc' = [tickpc EXCEPT ![c] = "send"]

TickFairness ==
    \A c \in Conns : /\ WF_<<nticks, tickpc>>(TickDue(c))
                     /\ WF_vars(TickSendOk(c))
                     /\ WF_vars(TickSendErr(c))

\* the server with endpoint A bound to player 7 and endpoint B to tree 5
InitL == InitB /\ state.endpoints["B"] = 5

SpecL == InitL /\ [][NextL]_vars /\ TickFairness

\* C39: every action appended to the pending queue is applied, and by the
\* next tick critical section whichever connection's it is: entries are only
\* ever appended, a tick applies all that has been appended so far, in the
\* order of appending, and leaves the queue empty, and under fair scheduling
\* a state with an entry waiting is followed by a state in which every entry
\* appended has been applied, also when the connections have gone away since
\* (as long as the tick counter of the model has not reached MaxTicks).
C39_QueuedIsApplied ==
    /\ [][/\ IsPrefix(enqueued, enqueued')
          /\ IsPrefix(applied, applied')
          /\ \A c \in Conns : TickOf(c) =>
                /\ applied' = enqueued
                /\ state'.event_queue = <<>>]_vars
    /\ (Len(applied) < Len(enqueued) /\ nticks < MaxTicks) ~> (applied = enqueued)

\* the connection of endpoint A has gone away and a send of its tick task
\* has failed; the action that A's player sent has been applied, and the
\* tick that ran last was of the other connection
C39_Witness ==
    /\ conn["k1"] = "closed" /\ failed["k1"]
    /\ tickpc["k2"] = "send" /\ tickpc["k1"] = "timer"
    /\ nticks = MaxTicks
    /\ applied # <<>> /\ applied = enqueued
    /\ \A i \in DOMAIN applied : applied[i][1] = state.endpoints["A"]

-----------------------------------------------------------------------------
(* The tick tasks and the lock, step by step: a tick task takes the lock    *)
(* (TickLock), runs its critical section and drops the guard (TickBody),    *)
(* then sends.  A handler task takes the lock, handles its action and       *)
(* releases the lock in one step, which it can take only while the lock is  *)
(* free.  Scheduling: a task that is not waiting for the network runs on,   *)
(* and the mutex is handed to its waiters (tokio's Mutex is first come,     *)
(* first served); nothing is assumed about send_one_way, which may never    *)
(* return.                                                                  *)

NextK ==
    \/ \E c \in Conns : AcceptStream(c)
    \/ \E c \in Conns, a \in QueuedActions : RecvAction(c, a)
    \/ \E c \in Conns : TickLock(c)
    \/ \E c \in Conns : TickBody(c)
    \/ \E c \in Conns : TickSendOk(c)

\* the step of a tick task out of its critical section, as far as the
\* task's own position goes: TickBody(c) is the one step of NextK that
\* takes tickpc[c] from "locked" to "send", and it can be taken exactly
\* when the guard below holds
TickBodyDue(c) ==
    /\ tickpc[c] = "locked"
    /\ tickpc' = [tickpc EXCEPT ![c] = "send"]

LockFairness ==
    \A c \in Conns : /\ WF_vars(TickLock(c))
                     /\ WF_tickpc(TickBodyDue(c))
                     /\ WF_vars(\E a \in QueuedActions : RecvAction(c, a))

SpecK == InitL /\ [][NextK]_vars /\ LockFairness

\* C5: a tick task never sends while it holds the lock: whenever a tick
\* task is in its send loop the lock is not its own; and a send that never
\* returns keeps nobody from the lock: whoever holds the lock releases it,
\* a tick task whose timer is due takes the lock (as long as the tick
\* counter of the model has not reached MaxTicks), and a handler task that
\* has read its stream handles it, without any send having to return.
C5_NoSendUnderLock ==
    /\ [](\A c \in Conns : tickpc[c] = "send" => lock # <<c>>)
    /\ \A c \in Conns : (lock = <<c>>) ~> (lock = <<>>)
    /\ \A c \in Conns : (tickpc[c] = "timer" /\ nticks < MaxTicks)
                            ~> (lock = <<c>> \/ nticks = MaxTicks)
    /\ \A c \in Conns : (handlers[c] > 0) ~> (handlers[c] = 0)

\* the tick task of one connection is in its send loop with all its
\* messages still to send, and the tick task of the other connection,
\* whose tick came later, holds the lock
C5_Witness ==
    \E c, d \in Conns :
        /\ c # d
        /\ tickpc[c] = "send" /\ Len(responses[c]) > 1
        /\ tickpc[d] = "locked" /\ lock = <<d>>
        /\ nticks = 1

-----------------------------------------------------------------------------
(* TemplateApp::start_server and the task it spawns.  Here client is a      *)
(* record:                                                                  *)
(*   router  self.router: None, or Some of the world name of the server     *)
(*           the router belongs to                                          *)
(*   game    the world handed to start_server                               *)
(*   task    where the spawned task stands: "spawned", "bound" (the router  *)
(*           is built and the task sleeps), "sent" or "failed"              *)
(*   chan    the routers sent on the channel and not yet received           *)
(*   tx, rx  router_tx, router_rx not yet dropped                           *)
(*   pc      where start_server stands: "test" (the loop condition),        *)
(*           "recv" (the loop body) or "returned"                           *)
(*   polls   how many times try_recv has returned Err, counted up to        *)
(*           MaxPolls                                                       *)

MaxPolls == 3

InitS ==
    /\ state = ServerState_new(LoadedWorld)
    /\ lock = <<>>
    /\ conn = [c \in Conns |-> "none"]
    /\ remote = [c \in Conns |-> "-"]
    /\ acceptLoop = [c \in Conns |-> "none"]
    /\ tickpc = [c \in Conns |-> "none"]
    /\ responses = [c \in Conns |-> <<>>]
    /\ disk = EmptyMap
    /\ applied = <<>>
    /\ enqueued = <<>>
    /\ queuedBy = [e \in Endpoints |-> <<>>]
    /\ sending = [c \in Conns |-> <<>>]
    /\ failed = [c \in Conns |-> FALSE]
    /\ handlers = [c \in Conns |-> 0]
    /\ nmsgs = 0
    /\ nticks = 0
    /\ sim = NoSim
    /\ wire = NoWire
    /\ mock = NoMock
    /\ view = NoView
    /\ \E g \in Worlds, r \in {None, Some(LoadedWorld.world_name)} :
         client = [router |-> r,
                   game |-> g,
                   task |-> "spawned",
                   chan |-> <<>>,
                   tx |-> TRUE,
                   rx |-> TRUE,
                   pc |-> "test",
                   polls |-> 0]

\* run_server_internal up to its sleep: Endpoint::bind returns; on Ok the
\* router is built around Echo::new(game) and the task sleeps, on Err the
\* task prints the error and ends, dropping router_tx
ServerBind(ok) ==
    /\ client.task = "spawned"
    /\ IF ok
       THEN /\ state' = ServerState_new(client.game)
            /\ client' = [client EXCEPT !.task = "bound"]
       ELSE /\ state' = state
            /\ client' = [client EXCEPT !.task = "failed", !.tx = FALSE]
    /\ UNCHANGED <<lock, conn, remote, acceptLoop, handlers, tickpc, responses, disk,
                   applied, enqueued, queuedBy, sending, failed, nmsgs, nticks, sim,
                   wire, mock, view>>

\* the sleep of 2000 ms is over: `let _ = router_tx.send(router)`, which
\* fails without effect when router_rx is dropped; the task ends
ServerSend ==
    /\ client.task = "bound"
    /\ client' = [client EXCEPT !.task = "sent",
                                !.tx = FALSE,
                                !.chan = IF client.rx
                                         THEN Append(@, client.game.world_name)
                                         ELSE @]
    /\ UNCHANGED <<netvars, sim, wire, mock, view>>

\* `while self.router.is_none()`: into the body, or out of the loop and of
\* start_server, which drops router_rx and what it holds
LoopTest ==
    /\ client.pc = "test"
    /\ client' = IF client.router = None
                 THEN [client EXCEPT !.pc = "recv"]
                 ELSE [client EXCEPT !.pc = "returned", !.rx = FALSE, !.chan = <<>>]
    /\ UNCHANGED <<netvars, sim, wire, mock, view>>

\* `if let Ok(router) = router_rx.try_recv()`: a router is taken, or
\* try_recv returns Err (Empty, or Disconnected once router_tx is dropped)
\* and the body does nothing
LoopTryRecv ==
    /\ client.pc = "recv"
    /\ client' = IF client.chan # <<>>
                 THEN [client EXCEPT !.router = Some(Head(client.chan)),
                                     !.chan = Tail(@),
                                     !.pc = "test"]
                 ELSE [client EXCEPT !.pc = "test",
                                     !.polls = IF @ < MaxPolls THEN @ + 1 ELSE @]
    /\ UNCHANGED <<netvars, sim, wire, mock, view>>

NextS ==
    \/ \E ok \in BOOLEAN : ServerBind(ok)
    \/ ServerSend
    \/ LoopTest
    \/ LoopTryRecv

\* the runtime's worker threads run the spawned task while the calling
\* thread spins, Endpoint::bind and the sleep return, and the calling
\* thread keeps running
SpecS ==
    /\ InitS
    /\ [][NextS]_vars
    /\ WF_vars(\E ok \in BOOLEAN : ServerBind(ok))
    /\ WF_vars(ServerSend)
    /\ WF_vars(LoopTest)
    /\ WF_vars(LoopTryRecv)

\* C40: start_server always returns, whether the server starts or
\* run_server_internal fails and no router is ever sent.
C40_StartServerTerminates == <>(client.pc = "returned")


====
